---- MODULE Spec2Model ----
(***************************************************************************)
(* Model of the continuous voice pipeline of kawaz/voice-agent,            *)
(* sandbox/wake-whisper-continuous/event_driven_v3.py                      *)
(* (EventDrivenVoiceAssistantV3): the shared ring buffer, the wake-word    *)
(* callback, the silence monitor, the session manager (event processor),   *)
(* the multi-level scheduler and the transcription worker.                 *)
(*                                                                         *)
(* Numbers.  Stream times are Python floats in the source.  They are       *)
(* modelled as binary fixed-point numbers with FRACTION_BITS fractional    *)
(* bits: a time t is the integer t * ONE.  A division rounds to the        *)
(* nearest representable value, as the float division of the source does,  *)
(* so that total_samples / SAMPLE_RATE followed by * SAMPLE_RATE and int() *)
(* is a round trip that can lose a sample, which it does in the source     *)
(* (int((512512 / 16000) * 16000) = 512511).                               *)
(* Wall-clock times (time.time()) are integers counting clock ticks; the   *)
(* tick is the resolution int(timestamp * 1000) keeps in a session id.     *)
(*                                                                         *)
(* The earlier assistants of the same directory are modelled beside it,    *)
(* each run on its own: multilevel_main.py, continuous_main.py (both over  *)
(* audio_recorder.py's MultiLevelAudioRecorder) and                        *)
(* smart_continuous_main.py.                                               *)
(***************************************************************************)
EXTENDS Integers, Sequences, FiniteSets, TLC

(***************************************************************************)
(* Bounds and scaled-down parameters                                       *)
(***************************************************************************)
\* fractional bits of a modelled float (a double has 52)
FRACTION_BITS == 3
\* Config.SAMPLE_RATE, samples per second (16000 in config.py, scaled down)
SAMPLE_RATE == 3
\* Config.CHUNK_SIZE, samples per buffer-stream read (512 in config.py, scaled down)
CHUNK_SIZE == 2
\* chunks the microphone delivers in a run of the ring-buffer specification
BufMaxChunks == 6
\* chunks the microphone delivers in a run of the long-session specification
LongMaxChunks == 48
\* chunks the microphone delivers in a run of the session-end specification
EndMaxChunks == 16
\* calls of log_json, and clock ticks, in a run of the event-stream specification
LogMaxCalls == 4
LogMaxTicks == 2
\* chunks the microphone delivers in a run of the silent-room specification
QuietMaxChunks == 16
\* chunks the microphone delivers in a run of the two-text specification
TextMaxChunks == 12
\* chunks the microphone delivers in a run of the life-cycle specification
LifeMaxChunks == 14
\* chunks the microphone delivers in a run of the overload specification
SlowMaxChunks == 15
\* the eviction specification: the capacity of the ring buffer in seconds (300
\* in the source; like there, more than the longest level) and the chunks of a run
EvictBufSeconds == 21
EvictMaxChunks == 36
\* largest capacity, in seconds, tried by the ring-buffer specification
BufMaxSeconds == 2
\* wake words spoken, and so session threads started at most, in a run of the
\* recorder-based assistants
RecMaxWakes == 3
\* chunks the microphone delivers in a run of multilevel_main.py
MlMaxChunks == 8
\* chunks the microphone delivers in a run of continuous_main.py
CvMaxChunks == 8
\* wake words spoken in a run of continuous_main.py
CvMaxWakes == 2
\* wake words spoken in a run of smart_continuous_main.py
SmMaxWakes == 5
\* maxlen of self.wake_word_events (100 in smart_continuous_main.py, scaled down)
WAKE_EVENTS_MAXLEN == 2

RECURSIVE Pow2(_)
Pow2(n) == IF n = 0 THEN 1 ELSE 2 * Pow2(n - 1)

\* the float 1.0
ONE == Pow2(FRACTION_BITS)

Max(a, b) == IF a >= b THEN a ELSE b
Min(a, b) == IF a <= b THEN a ELSE b

\* n / d for naturals n, d as a float: rounded to nearest, ties to even
FDiv(n, d) ==
    LET q == (n * ONE) \div d
        r == (n * ONE) % d
    IN  IF 2 * r > d \/ (2 * r = d /\ q % 2 = 1) THEN q + 1 ELSE q

\* the float literal h / 2 (0.5, 1.5, 2.0, ...), exact in binary
Halves(h) == (h * ONE) \div 2

\* the float of an integer
FInt(n) == n * ONE

\* Python's int(x) of a float: truncation toward zero
TruncInt(x) == IF x >= 0 THEN x \div ONE ELSE -((-x) \div ONE)

\* the absent value (Python's None), where no other value is compared with it
None == "None"
\* no session id
NoSession == 0
\* an optional array of samples: None, or the array
NoSegment == [present |-> FALSE, samples |-> << >>]
Segment(samples) == [present |-> TRUE, samples |-> samples]
\* an optional TranscriptionResult: None, or its text
NoResult == [present |-> FALSE, text |-> << >>]
Result(text) == [present |-> TRUE, text |-> text]

(***************************************************************************)
(* Program constants                                                       *)
(***************************************************************************)
\* Config.BUFFER_LEVELS: duration and overlap of each level, in seconds
SHORT_DURATION == 3
SHORT_OVERLAP == 1
MEDIUM_DURATION == 8
MEDIUM_OVERLAP == 2
LONG_DURATION == 20
LONG_OVERLAP == 5
\* Config.INITIAL_SILENCE_IGNORE, in seconds
INITIAL_SILENCE_IGNORE == 3
\* self.buffer_duration of EventDrivenVoiceAssistantV3.__init__, in seconds
BUFFER_SECONDS == 300
\* check_transcription_change ends the session at this many unchanged results
REPETITION_LIMIT == 3
\* the per-session cap on recorded audio, in seconds (multilevel_main.py)
SESSION_TIMEOUT == 30
\* MultiLevelAudioRecorder: self.max_duration and self.pre_buffer_duration (seconds)
MAX_DURATION == 120
PRE_BUFFER_DURATION == 2

\* the levels the scheduler walks, in the order of Config.BUFFER_LEVELS
\* ("ultra" is skipped by level_manager_worker)
Levels == <<"short", "medium", "long">>
LevelSet == {"short", "medium", "long"}
LevelDuration(level) ==
    CASE level = "short" -> SHORT_DURATION
      [] level = "medium" -> MEDIUM_DURATION
      [] level = "long" -> LONG_DURATION
LevelOverlap(level) ==
    CASE level = "short" -> SHORT_OVERLAP
      [] level = "medium" -> MEDIUM_OVERLAP
      [] level = "long" -> LONG_OVERLAP

(***************************************************************************)
(* More bounds and scaled-down parameters                                  *)
(***************************************************************************)
\* clock ticks in half a second (500 in the source, where the tick is 1 ms)
TicksPerHalfSecond == 1
\* audio_buffer_worker runs detect_silence every so many chunks (10 in the source)
SILENCE_CHECK_CHUNKS == 2
\* detect_silence posts a silence event at this count (50 in the source, where
\* 49 checks span 15.68 s, more than the 5 s the event reaches back; so here)
SILENCE_COUNT_LIMIT == 5
\* chunks the microphone delivers in a run of the pipeline specification
MaxChunks == 12
\* wake words the detector reports in a run
MaxWakes == 2

TicksPerSecond == 2 * TicksPerHalfSecond
\* time.time() when the assistant starts: far from 0, as the epoch is
StartClock == 1000 * TicksPerSecond
\* wake words at any time of a run, or only in its first second
Anytime == 2 * StartClock
FirstSecond == StartClock + TicksPerSecond

\* the texts the speech recogniser may return, as sequences of characters
Texts == { <<"a">> }
EmptyText == << >>
\* two texts of which the second contains the first
GrowingTexts == { <<"a">>, <<"a", "b">> }

VARIABLES
    \* self.total_samples
    total_samples,
    \* self.audio_buffer: the deque; a sample is named by its index in the stream
    audio_buffer,
    \* self.buffer_lock: "free", or the thread that holds it
    buffer_lock,
    \* self.buffer_duration (seconds); the deque's maxlen is buffer_duration * SAMPLE_RATE
    buffer_duration,
    \* audio_buffer_worker: its position in the loop body, and the chunk it read
    ab_pc,
    ab_chunk,
    chunks_processed,
    \* chunks the microphone has still to deliver (environment)
    mic_chunks,
    \* samples ever handed to audio_buffer.extend (observation)
    enqueued,
    \* the range an independent reader extracts (environment), and what it got
    ex_range,
    ex_last,
    ex_first,
    \* time.time(), in clock ticks (environment)
    clock,
    \* wake words the detector has still to report (environment)
    wake_budget,
    \* the texts the recogniser may return in this run (environment)
    asr_texts,
    \* self.event_queue
    event_queue,
    \* self.transcribe_queue
    transcribe_queue,
    \* self.active_sessions: the dict in insertion order, one record per key
    active_sessions,
    \* self.transcription_results: session id -> level -> text
    transcription_results,
    \* self.transcription_history: session id -> texts, no_change_count
    transcription_history,
    \* level_manager_worker: the clock value its time.sleep(0.5) ends at
    lm_wakeup,
    \* transcribe_worker: "idle", or "asr" while whisper runs on tw_req
    tw_pc,
    tw_req,
    \* the event stream written by log_json, per session id: how many records
    \* of each kind (counted up to 2), and the sessions ever created (observation)
    emitted,
    session_log,
    \* what the last step of the event processor did (observation)
    ep_last,
    \* whether whisper may take longer than a clock tick in this run (environment)
    asr_slow,
    \* what `rms < Config.SILENCE_THRESHOLD` may yield in this run (environment)
    silences,
    \* the clock value up to which wake words are spoken in this run (environment)
    wake_until,
    \* stop(): how far the shutdown has come; "running" before it
    stop_pc,
    \* the requests whose range was not inside the retained window when the
    \* level manager created them (observation)
    out_of_window,
    \* per session id: the text of the last transcription_result record and how
    \* many records in a row carried it (observation)
    result_run,
    \* what the last step of the transcription worker did (observation)
    tw_last,
    \* what self.wake_detector.initialize() answers in this run (environment)
    detector_ok,
    \* initialize(): how far it has come; "ready" once it has returned True
    init_pc,
    \* the status values of the "system" records written so far (observation)
    status_log,
    \* `rms < Config.SILENCE_THRESHOLD` of the chunk the audio worker stored
    \* last (observation)
    ab_rms_low,
    \* the session ids of the rows self.database.insert_request has stored
    database,
    \* log_json, statement by statement: per thread the log_entry it has built
    \* and not yet printed, the records printed so far, and the number of calls
    log_pending,
    log_stream,
    log_calls,
    \* MultiLevelAudioRecorder: self.current_position, self.is_recording,
    \* self.continuous_buffer, self.pre_buffer
    current_position,
    is_recording,
    continuous_buffer,
    pre_buffer,
    \* chunks the recorder's stream has still to deliver (environment), and the
    \* samples it has delivered
    rec_chunks,
    rec_delivered,
    \* read_chunk, per calling thread: "idle", "add" between the load and the
    \* store of `self.current_position += len(audio_chunk)`, "got" once the
    \* chunk is returned; and the value of current_position it loaded
    rc_pc,
    rc_base,
    \* MultiLevelVoiceAssistant: self.is_processing
    is_processing,
    \* the process_multilevel threads started so far, with their position
    ml_threads,
    \* the session_start and session_end records written so far (observation)
    ml_events,
    \* wake words still to be spoken in a run of multilevel_main.py (environment)
    ml_wakes,
    \* ContinuousVoiceAssistant: the session id of self.current_session, or
    \* NoSession for None
    cv_current_session,
    \* the process_session threads started so far: their session, their
    \* position, and what the session heard and got (observation)
    cv_threads,
    \* wake words still to be spoken in a run of continuous_main.py (environment)
    cv_wakes,
    \* SmartContinuousVoiceAssistant: self.wake_word_events, the deque of events
    wake_word_events,
    \* self.is_running
    sm_is_running,
    \* process_wake_words: its position, the number of appends the deque had
    \* seen when its iteration began, and the event it is working on
    sm_pc,
    sm_seen,
    sm_event,
    \* the session_start and session_end records written so far (observation)
    sm_events,
    \* wake words still to be spoken in a run of smart_continuous_main.py
    \* (environment), and the number detected so far
    sm_wakes,
    sm_detected

bufvars == <<total_samples, audio_buffer, buffer_lock, buffer_duration, ab_pc,
             ab_chunk, chunks_processed, mic_chunks, enqueued, ab_rms_low>>
exvars == <<ex_range, ex_last, ex_first>>
envvars == <<wake_budget, asr_texts, asr_slow, silences, wake_until, stop_pc,
             detector_ok>>
sessvars == <<active_sessions, transcription_results, transcription_history>>
twvars == <<tw_pc, tw_req>>
obsvars == <<emitted, session_log, ep_last, out_of_window, result_run, tw_last,
             database>>
lifevars == <<init_pc, status_log>>
logvars == <<log_pending, log_stream, log_calls>>
v3vars == <<bufvars, exvars, clock, envvars, event_queue, transcribe_queue, sessvars,
            lm_wakeup, twvars, obsvars, lifevars, logvars>>
recvars == <<current_position, is_recording, continuous_buffer, pre_buffer, rec_chunks,
             rec_delivered, rc_pc, rc_base>>
mlvars == <<is_processing, ml_threads, ml_events, ml_wakes>>
cvvars == <<cv_current_session, cv_threads, cv_wakes>>
smvars == <<wake_word_events, sm_is_running, sm_pc, sm_seen, sm_event, sm_events,
            sm_wakes, sm_detected>>
progvars == <<recvars, mlvars, cvvars, smvars>>
vars == <<v3vars, progvars>>

\* the worker threads have been started by initialize()
ThreadsStarted == init_pc \in {"threads_started", "ready"}
\* `while self.is_running:` at the top of every worker loop, in a started thread
Running == ThreadsStarted /\ stop_pc = "running"

(***************************************************************************)
(* Ring buffer                                                             *)
(***************************************************************************)
\* deque(maxlen=self.buffer_duration * Config.SAMPLE_RATE)
Maxlen == buffer_duration * SAMPLE_RATE

\* deque.extend on a bounded deque: append, dropping from the left
DequeExtend(buf, chunk) ==
    LET all == buf \o chunk
    IN  IF Len(all) <= Maxlen THEN all
        ELSE SubSeq(all, Len(all) - Maxlen + 1, Len(all))

\* get_stream_position when self.total_samples is total
StreamPosition(total) == FDiv(total, SAMPLE_RATE)
get_stream_position == StreamPosition(total_samples)

\* transcribe_stream.read(CHUNK_SIZE): the next CHUNK_SIZE samples of the stream
ReadChunk(done) == [i \in 1..CHUNK_SIZE |-> done + i - 1]

\* a reader that does not wait for the lock
LockFreeUnguarded == TRUE
\* `with self.buffer_lock:` in audio_buffer_worker and in extract_audio_segment
LockFree == buffer_lock = "free"

\* what extract_audio_segment reads under the lock
Snapshot ==
    [total |-> total_samples, position |-> get_stream_position, buffer |-> audio_buffer]

\* extract_audio_segment, after the lock is released
ExtractFrom(snap, start, end) ==
    LET buffer_array == snap.buffer
        len == Len(buffer_array)
        buffer_dur == FDiv(len, SAMPLE_RATE)
        buffer_start_time == snap.position - buffer_dur
        start_sample == TruncInt(Max(0, (start - buffer_start_time) * SAMPLE_RATE))
        end_sample == TruncInt(Min(FInt(len), (end - buffer_start_time) * SAMPLE_RATE))
    IN  IF len = 0 THEN NoSegment
        ELSE IF start_sample >= end_sample THEN NoSegment
        ELSE Segment(SubSeq(buffer_array, start_sample + 1, end_sample))

(***************************************************************************)
(* A reader of the ring buffer: extract_audio_segment(start, end) called   *)
(* again and again for one range while the audio worker appends            *)
(***************************************************************************)
NoRange == [start |-> 0, end |-> 0]
NoExtract ==
    [valid |-> FALSE, snap |-> [total |-> 0, position |-> 0, buffer |-> << >>],
     result |-> NoSegment, retained |-> FALSE]

\* the range lies in the retained window: end <= stream_position and
\* start >= stream_position - buffer_duration
Retained(snap, start, end) ==
    /\ end <= snap.position
    /\ start >= snap.position - FInt(buffer_duration)

ExtractCall ==
    /\ LockFree
    /\ LET snap == Snapshot
           result == ExtractFrom(snap, ex_range.start, ex_range.end)
           this == [valid |-> TRUE, snap |-> snap, result |-> result,
                    retained |-> Retained(snap, ex_range.start, ex_range.end)]
       IN  /\ ex_last' = this
           /\ ex_first' = IF ~ex_first.valid /\ this.retained THEN this ELSE ex_first
    /\ UNCHANGED <<progvars, lifevars, logvars, bufvars, ex_range, clock, envvars, event_queue, transcribe_queue,
                   sessvars, lm_wakeup, twvars, obsvars>>

(***************************************************************************)
(* Events, sessions and the event stream                                   *)
(***************************************************************************)
\* AudioEvent; metadata holds session_id and reason (silence) or neither (wake_word)
AudioEvent(timestamp, stream_position, event_type, start, end, session_id, reason) ==
    [timestamp |-> timestamp, stream_position |-> stream_position,
     event_type |-> event_type, start |-> start, end |-> end,
     session_id |-> session_id, reason |-> reason]

\* TranscribeRequest
TranscribeRequest(session_id, level, start, end, timestamp) ==
    [session_id |-> session_id, level |-> level, start |-> start, end |-> end,
     timestamp |-> timestamp]

\* f"session_{int(event.timestamp * 1000)}": the timestamp cut to the millisecond.
\* Steps taken at one clock value are stamped within one millisecond.
SessionId(timestamp) == timestamp

SessionIds == {active_sessions[i].session_id : i \in 1..Len(active_sessions)}
SessionIndex(sid) ==
    CHOOSE i \in 1..Len(active_sessions) : active_sessions[i].session_id = sid
SessionOf(sid) == active_sessions[SessionIndex(sid)]

\* dict assignment d[key] = value, and del d[key]
DictPut(d, key, value) ==
    [k \in (DOMAIN d) \cup {key} |-> IF k = key THEN value ELSE d[k]]
DictDel(d, key) == [k \in (DOMAIN d) \ {key} |-> d[k]]
EmptyDict == [k \in {} |-> None]

\* one more record of a kind in the event stream, counted up to 2
NoRecords ==
    [session_start |-> 0, transcription_result |-> 0, final_result |-> 0,
     session_end |-> 0, session_end_by_repetition |-> 0]
Records(sid) == IF sid \in DOMAIN emitted THEN emitted[sid] ELSE NoRecords
Count2(n) == Min(n + 1, 2)
LogRecord(log, sid, kind) ==
    LET old == IF sid \in DOMAIN log THEN log[sid] ELSE NoRecords
    IN  DictPut(log, sid, [old EXCEPT ![kind] = Count2(old[kind])])

(***************************************************************************)
(* audio_buffer_worker and detect_silence                                  *)
(***************************************************************************)
\* the blocking read returns once the chunk has been recorded
ChunkRecorded ==
    (clock - StartClock) * SAMPLE_RATE >= (enqueued + CHUNK_SIZE) * TicksPerSecond

\* detect_silence on a silent chunk: the sessions past the initial period, in
\* dict order, up to and including the first that reaches the limit
SilenceEligibleFromWake(session, current_time) == TRUE
SilenceEligible(session, current_time) ==
    ~(current_time - session.wake_word.end < FInt(INITIAL_SILENCE_IGNORE))
SilenceHit(session, current_time) ==
    /\ SilenceEligible(session, current_time)
    /\ session.silence_count + 1 >= SILENCE_COUNT_LIMIT
SilenceBreak(sessions, current_time) ==
    LET hits == {i \in 1..Len(sessions) : SilenceHit(sessions[i], current_time)}
    IN  IF hits = {} THEN Len(sessions) + 1
        ELSE CHOOSE i \in hits : \A j \in hits : i <= j
SilentSessions(sessions, current_time) ==
    [i \in 1..Len(sessions) |->
        IF SilenceEligible(sessions[i], current_time)
           /\ i <= SilenceBreak(sessions, current_time)
        THEN [sessions[i] EXCEPT !.silence_count = @ + 1]
        ELSE sessions[i]]
SilentEvents(sessions, current_time) ==
    LET b == SilenceBreak(sessions, current_time)
    IN  IF b > Len(sessions) THEN << >>
        ELSE << AudioEvent(clock, current_time, "silence",
                           current_time - Halves(10), current_time,
                           sessions[b].session_id, "silence") >>
\* detect_silence otherwise: every counter is reset
LoudSessions(sessions) ==
    [i \in 1..Len(sessions) |-> [sessions[i] EXCEPT !.silence_count = 0]]

\* with self.buffer_lock: self.audio_buffer.extend(audio_chunk) ...
AbExtend ==
    /\ Running
    /\ ab_pc = "read"
    /\ mic_chunks > 0
    /\ ChunkRecorded
    /\ LockFree
    /\ LET chunk == ReadChunk(enqueued)
       IN  /\ audio_buffer' = DequeExtend(audio_buffer, chunk)
           /\ ab_chunk' = chunk
           /\ enqueued' = enqueued + Len(chunk)
    /\ buffer_lock' = "audio_buffer"
    /\ ab_pc' = "count"
    /\ mic_chunks' = mic_chunks - 1
    /\ UNCHANGED <<progvars, lifevars, logvars, ab_rms_low, total_samples, buffer_duration,
                   chunks_processed, exvars, clock,
                   envvars, event_queue, transcribe_queue, sessvars, lm_wakeup,
                   twvars, obsvars>>

\* a counter that follows the retained samples instead of the stream
CountSamplesRetained(total, chunk) == Min(total + Len(chunk), Maxlen)
\* the new value of self.total_samples
CountSamples(total, chunk) == total + Len(chunk)

\* ... self.total_samples += len(audio_chunk), the lock released, and
\* detect_silence on every SILENCE_CHECK_CHUNKS-th chunk
AbCount(silent) ==
    /\ ab_pc = "count"
    /\ total_samples' = CountSamples(total_samples, ab_chunk)
    /\ buffer_lock' = "free"
    /\ ab_pc' = "read"
    /\ ab_chunk' = << >>
    /\ chunks_processed' = chunks_processed + 1
    /\ ab_rms_low' = silent
    /\ LET current_time == StreamPosition(total_samples')
       IN  IF chunks_processed' % SILENCE_CHECK_CHUNKS # 0
           THEN UNCHANGED <<active_sessions, event_queue>>
           ELSE IF Len(active_sessions) > 0 /\ silent
           THEN /\ active_sessions' = SilentSessions(active_sessions, current_time)
                /\ event_queue' =
                       event_queue \o SilentEvents(active_sessions, current_time)
           ELSE /\ active_sessions' = LoudSessions(active_sessions)
                /\ UNCHANGED event_queue
    /\ UNCHANGED <<progvars, lifevars, logvars, audio_buffer, buffer_duration, mic_chunks, enqueued, exvars, clock,
                   envvars, transcribe_queue, transcription_results,
                   transcription_history, lm_wakeup, twvars, obsvars>>

(***************************************************************************)
(* on_wake_word_detected (called by wake_detector_worker)                  *)
(***************************************************************************)
\* the detector supplies no bounds (timestamp_start = 0): they are estimated
\* the event built from the detector's own bounds (0 and 0 without a recorder),
\* as it would be if on_wake_word_detected did not fill them in
WakeEventFromDetector(stream_pos) ==
    AudioEvent(clock, stream_pos, "wake_word", 0, 0, NoSession, None)

WakeEvent(stream_pos) ==
    AudioEvent(clock, stream_pos, "wake_word", stream_pos - Halves(3), stream_pos,
               NoSession, None)

OnWakeWordDetected ==
    /\ Running
    /\ wake_budget > 0
    /\ clock <= wake_until
    /\ wake_budget' = wake_budget - 1
    /\ event_queue' = Append(event_queue, WakeEvent(get_stream_position))
    /\ UNCHANGED <<progvars, lifevars, logvars, bufvars, exvars, clock, asr_texts, asr_slow, silences, wake_until, detector_ok,
                   stop_pc,
                   transcribe_queue, sessvars, lm_wakeup, twvars, obsvars>>

\* what whisper_processor.transcribe may return
AsrResults == {NoResult} \cup {Result(text) : text \in asr_texts \cup {EmptyText}}

(***************************************************************************)
(* event_processor_worker and finalize_session                             *)
(***************************************************************************)
\* the dict entry event_processor_worker stores for a wake word
NewSession(session_id, event) ==
    [session_id |-> session_id, wake_word |-> event, start_time |-> event.timestamp,
     last_level_check |-> [l \in LevelSet |-> 0], silence_count |-> 0]

\* self.active_sessions[session_id] = {...}: a new key goes last, an existing
\* key keeps its place and gets the new value
PutSession(sessions, session) ==
    IF \E i \in 1..Len(sessions) : sessions[i].session_id = session.session_id
    THEN [i \in 1..Len(sessions) |->
             IF sessions[i].session_id = session.session_id THEN session
             ELSE sessions[i]]
    ELSE Append(sessions, session)

\* del self.active_sessions[session_id]
DelSession(sessions, sid) == SelectSeq(sessions, LAMBDA x : x.session_id # sid)

NoOp == [op |-> "none", session_id |-> NoSession, outcome |-> "none", start |-> 0,
         end |-> 0]

\* a handler that leaves the record to whoever reports the first result
LogSessionStartOmitted(log, session_id) == log
\* log_json("session_start", {...})
LogSessionStart(log, session_id) == LogRecord(log, session_id, "session_start")

\* event.event_type == "wake_word"
EpWakeWord ==
    /\ Running
    /\ event_queue # << >>
    /\ Head(event_queue).event_type = "wake_word"
    /\ LET event == Head(event_queue)
           session_id == SessionId(event.timestamp)
       IN  /\ active_sessions' =
                  PutSession(active_sessions, NewSession(session_id, event))
           /\ transcription_results' =
                  DictPut(transcription_results, session_id, EmptyDict)
           /\ transcription_history' =
                  DictPut(transcription_history, session_id,
                          [texts |-> << >>, no_change_count |-> 0])
           /\ emitted' = LogSessionStart(emitted, session_id)
           /\ session_log' = session_log \cup
                  {[serial |-> Cardinality(session_log) + 1, session_id |-> session_id,
                    wake_start |-> event.start, wake_end |-> event.end]}
           /\ ep_last' = [NoOp EXCEPT !.op = "wake_word", !.session_id = session_id]
    /\ event_queue' = Tail(event_queue)
    /\ UNCHANGED <<progvars, lifevars, logvars, database, bufvars, exvars, clock, envvars, transcribe_queue, lm_wakeup, twvars,
                   out_of_window, result_run, tw_last>>

\* a gate that looks at the length of the segment only
FinalGateByLength(audio_segment, nonzero) ==
    IF ~audio_segment.present THEN "skip"
    ELSE IF 2 * Len(audio_segment.samples) > SAMPLE_RATE THEN "transcribe"
    ELSE "skip"

\* `if audio_segment and len(audio_segment) > Config.SAMPLE_RATE * 0.5:` in
\* finalize_session.  The truth value of a numpy array of two or more elements
\* raises ValueError; that of a one-element array is that of its element.
FinalGate(audio_segment, nonzero) ==
    IF ~audio_segment.present THEN "skip"
    ELSE IF Len(audio_segment.samples) > 1 THEN "raise"
    ELSE IF nonzero /\ 2 * Len(audio_segment.samples) > SAMPLE_RATE THEN "transcribe"
    ELSE "skip"

\* the range finalize_session extracts for the final transcription
FinalRange(session, current_pos) ==
    [start |-> session.wake_word.end, end |-> current_pos - Halves(4)]

\* event.event_type == "silence": finalize_session for an active session.
\* An exception of finalize_session is caught, and logged, by the worker loop.
EpSilence ==
    /\ Running
    /\ event_queue # << >>
    /\ Head(event_queue).event_type = "silence"
    /\ event_queue' = Tail(event_queue)
    /\ LET session_id == Head(event_queue).session_id
       IN  IF session_id \notin SessionIds
           THEN /\ ep_last' = [NoOp EXCEPT !.op = "silence", !.session_id = session_id,
                                           !.outcome = "ignored"]
                /\ UNCHANGED <<sessvars, emitted, database>>
           ELSE /\ LockFree
                /\ \E nonzero \in BOOLEAN, result \in AsrResults :
                     LET session == SessionOf(session_id)
                         range == FinalRange(session, get_stream_position)
                         audio_segment == ExtractFrom(Snapshot, range.start, range.end)
                         gate == FinalGate(audio_segment, nonzero)
                         final == gate = "transcribe" /\ result.present
                         log1 == IF final
                                 THEN LogRecord(emitted, session_id, "final_result")
                                 ELSE emitted
                     IN  /\ ep_last' = [op |-> "silence", session_id |-> session_id,
                                        outcome |-> gate, start |-> range.start,
                                        end |-> range.end]
                         /\ IF gate = "raise"
                            THEN UNCHANGED <<sessvars, emitted, database>>
                            ELSE /\ emitted' = LogRecord(log1, session_id, "session_end")
                                 /\ database' = IF final
                                                 THEN Append(database, session_id)
                                                 ELSE database
                                 /\ active_sessions' =
                                        DelSession(active_sessions, session_id)
                                 /\ transcription_results' =
                                        DictDel(transcription_results, session_id)
                                 /\ transcription_history' =
                                        DictDel(transcription_history, session_id)
    /\ UNCHANGED <<progvars, lifevars, logvars, bufvars, exvars, clock, envvars, transcribe_queue, lm_wakeup, twvars,
                   session_log, out_of_window, result_run, tw_last>>

(***************************************************************************)
(* level_manager_worker                                                    *)
(***************************************************************************)
\* min_interval = level_duration - overlap, in clock ticks
MinInterval(level) == (LevelDuration(level) - LevelOverlap(level)) * TicksPerSecond

\* a level that is issued as soon as its interval allows, whatever the elapsed audio
LevelDueByInterval(session, level, current_time, current_stream_pos) ==
    current_time - session.last_level_check[level] >= MinInterval(level)
\* a level that is issued on every pass once enough audio has elapsed
LevelDueByElapsed(session, level, current_time, current_stream_pos) ==
    current_stream_pos - session.wake_word.end >= FInt(LevelDuration(level))
\* `if duration_since_wake >= level_duration:` and
\* `if current_time - last_check >= min_interval:`
LevelDue(session, level, current_time, current_stream_pos) ==
    /\ current_stream_pos - session.wake_word.end >= FInt(LevelDuration(level))
    /\ current_time - session.last_level_check[level] >= MinInterval(level)

\* a request that takes the wake word's audio along
LevelRequestFromWakeStart(session, level, current_time, current_stream_pos) ==
    TranscribeRequest(session.session_id, level, session.wake_word.start,
                      Min(session.wake_word.end + FInt(LevelDuration(level)),
                          current_stream_pos),
                      current_time)
\* a request that runs up to the stream position, however long the level
LevelRequestToNow(session, level, current_time, current_stream_pos) ==
    TranscribeRequest(session.session_id, level, session.wake_word.end,
                      current_stream_pos, current_time)
\* a request whose window of the level's length ends at the current position,
\* moving on with every re-issue
LevelRequestSliding(session, level, current_time, current_stream_pos) ==
    TranscribeRequest(session.session_id, level,
                      current_stream_pos - FInt(LevelDuration(level)),
                      current_stream_pos, current_time)
\* TranscribeRequest(session_id, level, start=wake_end, end=min(...), timestamp)
LevelRequest(session, level, current_time, current_stream_pos) ==
    TranscribeRequest(session.session_id, level, session.wake_word.end,
                      Min(session.wake_word.end + FInt(LevelDuration(level)),
                          current_stream_pos),
                      current_time)

\* the requests of one scan: sessions in dict order, levels in table order
ScanRequests(sessions, current_time, current_stream_pos) ==
    LET pairs == [k \in 1..(3 * Len(sessions)) |->
                     [s |-> sessions[((k - 1) \div 3) + 1], l |-> Levels[((k - 1) % 3) + 1]]]
        due == SelectSeq(pairs,
                   LAMBDA p : LevelDue(p.s, p.l, current_time, current_stream_pos))
    IN  [k \in 1..Len(due) |->
            LevelRequest(due[k].s, due[k].l, current_time, current_stream_pos)]

ScanSessions(sessions, current_time, current_stream_pos) ==
    [i \in 1..Len(sessions) |->
        [sessions[i] EXCEPT !.last_level_check =
            [l \in LevelSet |->
                IF LevelDue(sessions[i], l, current_time, current_stream_pos)
                THEN current_time ELSE @[l]]]]

\* the range of a request lies inside the retained window: its first sample
\* is not older than the oldest sample in the buffer, its end not beyond the
\* stream position
RangeRetained(req) ==
    /\ (2 * req.start * SAMPLE_RATE + ONE) \div (2 * ONE) >= enqueued - Len(audio_buffer)
    /\ req.end <= get_stream_position

\* one pass of the loop body, then time.sleep(0.5)
LmScan ==
    /\ Running
    /\ clock >= lm_wakeup
    /\ LET requests == ScanRequests(active_sessions, clock, get_stream_position)
       IN  /\ transcribe_queue' = transcribe_queue \o requests
           /\ out_of_window' = out_of_window \cup
                  {requests[k] : k \in {i \in 1..Len(requests) : ~RangeRetained(requests[i])}}
    /\ active_sessions' = ScanSessions(active_sessions, clock, get_stream_position)
    /\ lm_wakeup' = clock + TicksPerHalfSecond
    /\ UNCHANGED <<progvars, lifevars, logvars, database, bufvars, exvars, clock, envvars, event_queue, transcription_results,
                   transcription_history, twvars, emitted, session_log, ep_last,
                   result_run, tw_last>>

(***************************************************************************)
(* transcribe_worker and check_transcription_change                        *)
(***************************************************************************)
\* text.strip().replace(" ", "").replace(<comma>, "").replace(<full stop>, ""):
\* "," and "." stand for the Japanese comma and full stop of the source
Normalize(text) == SelectSeq(text, LAMBDA c : c \notin {" ", ",", "."})

\* Python's `sub in text` on strings
Contains(sub, text) ==
    \E i \in 0..(Len(text) - Len(sub)) : SubSeq(text, i + 1, i + Len(sub)) = sub

Last(seq) == seq[Len(seq)]

\* the history entry after check_transcription_change(session_id, new_text)
ChangedHistory(history, new_text) ==
    IF history.texts = << >>
    THEN [history EXCEPT !.texts = Append(@, new_text)]
    ELSE IF Normalize(new_text) = Normalize(Last(history.texts))
            \/ Contains(Normalize(Last(history.texts)), Normalize(new_text))
    THEN [history EXCEPT !.no_change_count = @ + 1]
    ELSE [texts |-> Append(history.texts, new_text), no_change_count |-> 0]

\* whether check_transcription_change ends the session by repetition
Repetition(history, new_text) ==
    /\ history.texts # << >>
    /\ ChangedHistory(history, new_text).no_change_count > history.no_change_count
    /\ ChangedHistory(history, new_text).no_change_count >= REPETITION_LIMIT

\* the end event check_transcription_change posts: a "silence" event
RepetitionEvent(session_id) ==
    AudioEvent(clock, get_stream_position, "silence",
               get_stream_position - Halves(4), get_stream_position,
               session_id, "repetition")

NoRequest == TranscribeRequest(NoSession, "none", 0, 0, 0)

\* a step of the worker: what it did with which request, and whether it wrote
\* an "error" record (log_json("error", ...) in the except clause)
WorkerStep(op, outcome, req, error_event) ==
    [op |-> op, outcome |-> outcome, request |-> req, error_event |-> error_event]
NoWorkerStep == WorkerStep("none", "none", NoRequest, FALSE)

\* one more transcription_result record with this text for the session
NextRun(runs, sid, text) ==
    LET old == IF sid \in DOMAIN runs THEN runs[sid] ELSE [text |-> EmptyText, run |-> 0]
    IN  DictPut(runs, sid,
                IF old.run > 0 /\ old.text = text
                THEN [text |-> text, run |-> Min(old.run + 1, REPETITION_LIMIT + 1)]
                ELSE [text |-> text, run |-> 1])

\* req = self.transcribe_queue.get(); the segment is extracted; a request whose
\* segment is absent or shorter than 0.5 s is skipped
TwTake ==
    /\ Running
    /\ tw_pc = "idle"
    /\ transcribe_queue # << >>
    /\ LockFree
    /\ transcribe_queue' = Tail(transcribe_queue)
    /\ LET req == Head(transcribe_queue)
           audio_segment == ExtractFrom(Snapshot, req.start, req.end)
       IN  IF ~audio_segment.present \/ 2 * Len(audio_segment.samples) < SAMPLE_RATE
           THEN /\ UNCHANGED twvars
                /\ tw_last' = WorkerStep("take", "miss", req, FALSE)
           ELSE /\ tw_pc' = "asr"
                /\ tw_req' = req
                /\ tw_last' = WorkerStep("take", "asr", req, FALSE)
    /\ UNCHANGED <<progvars, lifevars, logvars, database, bufvars, exvars, clock, envvars, event_queue, sessvars, lm_wakeup,
                   emitted, session_log, ep_last, out_of_window, result_run>>

\* whisper returns: nothing, an empty text, or a text that is stored, logged
\* and compared with the session's history.  Storing the result of a session
\* that is gone raises KeyError, which the worker loop catches and logs.
TwFinish ==
    /\ tw_pc = "asr"
    /\ tw_pc' = "idle"
    /\ tw_req' = NoRequest
    /\ \E result \in AsrResults :
         LET sid == tw_req.session_id
         IN  IF ~result.present \/ result.text = EmptyText
             THEN /\ tw_last' = WorkerStep("finish",
                                           IF result.present THEN "empty" ELSE "failed",
                                           tw_req, FALSE)
                  /\ UNCHANGED <<event_queue, transcription_results,
                                 transcription_history, emitted, result_run>>
             ELSE IF sid \notin DOMAIN transcription_results
             THEN /\ tw_last' = WorkerStep("finish", "keyerror", tw_req, TRUE)
                  /\ UNCHANGED <<event_queue, transcription_results,
                                 transcription_history, emitted, result_run>>
             ELSE /\ tw_last' = WorkerStep("finish", "stored", tw_req, FALSE)
                  /\ result_run' = NextRun(result_run, sid, result.text)
                  /\ transcription_results' =
                         [transcription_results EXCEPT
                             ![sid] = DictPut(@, tw_req.level, result.text)]
                  /\ IF sid \in DOMAIN transcription_history
                     THEN /\ transcription_history' =
                                 [transcription_history EXCEPT
                                     ![sid] = ChangedHistory(@, result.text)]
                          /\ IF Repetition(transcription_history[sid], result.text)
                             THEN /\ event_queue' =
                                         Append(event_queue, RepetitionEvent(sid))
                                  /\ emitted' = LogRecord(
                                         LogRecord(emitted, sid, "transcription_result"),
                                         sid, "session_end_by_repetition")
                             ELSE /\ UNCHANGED event_queue
                                  /\ emitted' =
                                         LogRecord(emitted, sid, "transcription_result")
                     ELSE /\ UNCHANGED <<event_queue, transcription_history>>
                          /\ emitted' = LogRecord(emitted, sid, "transcription_result")
    /\ UNCHANGED <<progvars, lifevars, logvars, database, bufvars, exvars, clock, envvars, transcribe_queue, active_sessions,
                   lm_wakeup, session_log, ep_last, out_of_window>>

(***************************************************************************)
(* log_json, called by the threads without any lock                        *)
(***************************************************************************)
\* the threads whose records are followed, and the session their records name:
\* wake_word_detected carries no session id, session_start and
\* transcription_result do
LogThreads == {"wake_detector", "event_processor", "transcribe"}
LogSession == SessionId(StartClock)
LogSubject(thread) == IF thread = "wake_detector" THEN NoSession ELSE LogSession

\* log_entry = {"timestamp": time.time(), "event": ..., "data": ...}; serial
\* numbers the calls of log_json in the order they were made
LogEntry(serial, timestamp, thread, session_id) ==
    [serial |-> serial, timestamp |-> timestamp, thread |-> thread,
     session_id |-> session_id]
NoEntry == LogEntry(0, 0, "none", NoSession)

\* the session of the transcription worker's records has been started
SessionStartCalled ==
    \/ log_pending["event_processor"] # NoEntry
    \/ \E i \in 1..Len(log_stream) : log_stream[i].thread = "event_processor"

\* a thread enters log_json and builds log_entry, reading time.time()
LogStamp(thread) ==
    /\ log_pending[thread] = NoEntry
    /\ log_calls < LogMaxCalls
    /\ thread = "event_processor" => ~SessionStartCalled
    /\ thread = "transcribe" => SessionStartCalled
    /\ log_calls' = log_calls + 1
    /\ log_pending' = [log_pending EXCEPT
           ![thread] = LogEntry(log_calls + 1, clock, thread, LogSubject(thread))]
    /\ UNCHANGED <<progvars, log_stream, lifevars, bufvars, exvars, clock, envvars, event_queue,
                   transcribe_queue, sessvars, lm_wakeup, twvars, obsvars>>

\* print(json.dumps(log_entry, ensure_ascii=False)); sys.stdout.flush()
LogWrite(thread) ==
    /\ log_pending[thread] # NoEntry
    /\ log_stream' = Append(log_stream, log_pending[thread])
    /\ log_pending' = [log_pending EXCEPT ![thread] = NoEntry]
    /\ UNCHANGED <<progvars, log_calls, lifevars, bufvars, exvars, clock, envvars, event_queue,
                   transcribe_queue, sessvars, lm_wakeup, twvars, obsvars>>

\* the wall clock advances while the threads are inside log_json
LogTick ==
    /\ clock < StartClock + LogMaxTicks
    /\ clock' = clock + 1
    /\ UNCHANGED <<progvars, logvars, lifevars, bufvars, exvars, envvars, event_queue,
                   transcribe_queue, sessvars, lm_wakeup, twvars, obsvars>>

(***************************************************************************)
(* initialize (called by main, which returns 1 when it fails)              *)
(***************************************************************************)
\* a start-up that goes on whatever the detector answers
DetectorAccepted(ok) == TRUE
\* `if not self.wake_detector.initialize(): return False`
DetectorInitialized(ok) == ok

\* the statements of initialize() after the detector's, in program order
InitOrder == << "detector_ready", "streams_open", "threads_started", "ready" >>
InitIndex(pc) == CHOOSE i \in 1..Len(InitOrder) : InitOrder[i] = pc

\* log_json("system", {"status": "initializing"})
InitializeBegin ==
    /\ init_pc = "constructed"
    /\ init_pc' = "initializing"
    /\ status_log' = Append(status_log, "initializing")
    /\ UNCHANGED <<progvars, logvars, bufvars, exvars, clock, envvars, event_queue,
                   transcribe_queue, sessvars, lm_wakeup, twvars, obsvars>>

\* self.wake_detector.initialize() answers; on False initialize() returns
InitializeDetector ==
    /\ init_pc = "initializing"
    /\ init_pc' = IF DetectorInitialized(detector_ok) THEN "detector_ready" ELSE "failed"
    /\ UNCHANGED <<progvars, status_log, logvars, bufvars, exvars, clock, envvars, event_queue,
                   transcribe_queue, sessvars, lm_wakeup, twvars, obsvars>>

\* the next statement: both streams opened, the five threads started,
\* log_json("system", {"status": "ready", ...})
InitializeStep ==
    /\ init_pc \in {"detector_ready", "streams_open", "threads_started"}
    /\ init_pc' = InitOrder[InitIndex(init_pc) + 1]
    /\ status_log' = IF init_pc' = "ready" THEN Append(status_log, "ready")
                      ELSE status_log
    /\ UNCHANGED <<progvars, logvars, bufvars, exvars, clock, envvars, event_queue,
                   transcribe_queue, sessvars, lm_wakeup, twvars, obsvars>>

(***************************************************************************)
(* stop (called by run on KeyboardInterrupt)                               *)
(***************************************************************************)
\* the steps of stop() in program order, after self.is_running = False
StopOrder ==
    << "flag_cleared", "wake_closed", "streams_closed", "terminated",
       "detector_released", "storage_released", "stopped" >>
StopIndex(pc) == CHOOSE i \in 1..Len(StopOrder) : StopOrder[i] = pc

\* log_json("system", {"status": "shutting_down"}); self.is_running = False
Stop ==
    /\ init_pc = "ready"
    /\ stop_pc = "running"
    /\ status_log' = Append(status_log, "shutting_down")
    /\ stop_pc' = "flag_cleared"
    /\ UNCHANGED <<progvars, init_pc, logvars, bufvars, exvars, clock, wake_budget, asr_texts, asr_slow, silences, wake_until, detector_ok,
                   event_queue, transcribe_queue, sessvars, lm_wakeup, twvars, obsvars>>

\* the next statement of stop(): wake_stream closed, transcribe_stream closed,
\* pa.terminate(), wake_detector.cleanup(), database.close(),
\* log_json("system", {"status": "stopped"})
StopStep ==
    /\ stop_pc \notin {"running", "stopped"}
    /\ status_log' = IF StopOrder[StopIndex(stop_pc) + 1] = "stopped"
                      THEN Append(status_log, "stopped") ELSE status_log
    /\ stop_pc' = StopOrder[StopIndex(stop_pc) + 1]
    /\ UNCHANGED <<progvars, init_pc, logvars, bufvars, exvars, clock, wake_budget, asr_texts, asr_slow, silences, wake_until, detector_ok,
                   event_queue, transcribe_queue, sessvars, lm_wakeup, twvars, obsvars>>

(***************************************************************************)
(* Time                                                                    *)
(***************************************************************************)
\* The clock advances by one tick.  A thread that is due runs before the next
\* tick: the audio worker has stored every recorded chunk, the level manager
\* has made the pass its sleep ended for, the queues are drained.
Tick ==
    /\ mic_chunks > 0
    /\ ab_pc = "read"
    /\ ~ChunkRecorded
    /\ lm_wakeup > clock
    /\ event_queue = << >>
    /\ asr_slow \/ (transcribe_queue = << >> /\ tw_pc = "idle")
    /\ clock' = clock + 1
    /\ UNCHANGED <<progvars, lifevars, logvars, bufvars, exvars, envvars, event_queue, transcribe_queue, sessvars,
                   lm_wakeup, twvars, obsvars>>

(***************************************************************************)
(* audio_recorder.py: MultiLevelAudioRecorder, the recorder of the         *)
(* assistants in multilevel_main.py and continuous_main.py.  A sample is   *)
(* named by its index in the stream; the level buffers, which the claims   *)
(* checked here do not read, are left out.                                 *)
(***************************************************************************)
\* the callers of read_chunk: the main loop (run) and the k-th session thread
MainThread == 0
RecThreads == 0..RecMaxWakes
SessionThreads == 1..RecMaxWakes

\* a deque(maxlen=n) after appending: the last n elements
KeepLast(seq, n) ==
    IF Len(seq) <= n THEN seq ELSE SubSeq(seq, Len(seq) - n + 1, Len(seq))

\* self.max_samples = int(self.max_duration * self.sample_rate)
max_samples == MAX_DURATION * SAMPLE_RATE
\* self.pre_buffer_size = int(self.pre_buffer_duration * self.sample_rate / self.chunk_size)
pre_buffer_size == (PRE_BUFFER_DURATION * SAMPLE_RATE) \div CHUNK_SIZE

\* get_current_timestamp once the stream is started
get_current_timestamp == FDiv(current_position, SAMPLE_RATE)

\* the chunks of the pre-buffer, one after the other
RECURSIVE Flatten(_)
Flatten(chunks) ==
    IF chunks = << >> THEN << >> ELSE Head(chunks) \o Flatten(Tail(chunks))

\* the samples read_chunk calls have returned so far: those the stream has
\* delivered, less the chunks of the calls that have not returned yet
SamplesReturned ==
    rec_delivered - CHUNK_SIZE * Cardinality({t \in RecThreads : rc_pc[t] = "add"})

\* read_chunk up to the load of self.current_position in
\* `self.current_position += len(audio_chunk)`: stream.read, then under the
\* lock the pre-buffer and, while recording, the continuous buffer
ReadChunkLocked(t) ==
    /\ rec_chunks > 0
    /\ rc_pc[t] = "idle"
    /\ rec_chunks' = rec_chunks - 1
    /\ LET audio_chunk == [i \in 1..CHUNK_SIZE |-> rec_delivered + i]
       IN  /\ pre_buffer' = KeepLast(Append(pre_buffer, audio_chunk), pre_buffer_size)
           /\ continuous_buffer' =
                  IF is_recording
                  THEN KeepLast(continuous_buffer \o audio_chunk, max_samples)
                  ELSE continuous_buffer
    /\ rec_delivered' = rec_delivered + CHUNK_SIZE
    /\ rc_base' = [rc_base EXCEPT ![t] = current_position]
    /\ rc_pc' = [rc_pc EXCEPT ![t] = "add"]
    /\ UNCHANGED <<current_position, is_recording>>

\* the store of `self.current_position += len(audio_chunk)` and the return
ReadChunkStore(t) ==
    /\ rc_pc[t] = "add"
    /\ current_position' = rc_base[t] + CHUNK_SIZE
    /\ rc_pc' = [rc_pc EXCEPT ![t] = "got"]
    /\ UNCHANGED <<rec_chunks, rec_delivered, rc_base, pre_buffer, continuous_buffer,
                   is_recording>>

\* the caller has taken the chunk read_chunk returned
ChunkTaken(t) == rc_pc' = [rc_pc EXCEPT ![t] = "idle"]

\* start_recording: the continuous buffer takes the pre-buffer
start_recording ==
    /\ is_recording' = TRUE
    /\ continuous_buffer' =
           KeepLast(continuous_buffer \o Flatten(pre_buffer), max_samples)

\* an AudioChunk of get_ultra_chunk, or None
NoChunk == [present |-> FALSE, audio |-> << >>]
UltraChunk(buffer) ==
    IF Len(buffer) > 0 THEN [present |-> TRUE, audio |-> buffer] ELSE NoChunk

RecorderConstructed ==
    /\ current_position = 0
    /\ is_recording = FALSE
    /\ continuous_buffer = << >>
    /\ pre_buffer = << >>
    /\ rec_delivered = 0
    /\ rc_pc = [t \in RecThreads |-> "idle"]
    /\ rc_base = [t \in RecThreads |-> 0]

(***************************************************************************)
(* multilevel_main.py: MultiLevelVoiceAssistant.  The main loop reads      *)
(* chunks and feeds the detector; a session runs in its own thread         *)
(* (process_multilevel), which reads chunks as well once the initial       *)
(* silence window is over.                                                 *)
(***************************************************************************)
\* a process_multilevel thread and the session it was started for
MlThread(session_id, wake_word_end) ==
    [session_id |-> session_id, pc |-> "start", wake_word_end |-> wake_word_end]
MlAt(k, pc) == k <= Len(ml_threads) /\ ml_threads[k].pc = pc
MlGoto(k, pc) == ml_threads' = [ml_threads EXCEPT ![k].pc = pc]
MlEvent(kind, session_id) == [kind |-> kind, session_id |-> session_id]

\* a detector that is fed, and a callback that starts a session, whatever
\* is_processing says
SessionMayStartAlways(processing) == TRUE
\* `if not self.is_processing:` in run and `if self.is_processing: return`
\* in on_wake_word_detected
SessionMayStart(processing) == ~processing

\* run: audio_chunk = self.audio_recorder.read_chunk()
MlMainRead ==
    /\ ReadChunkLocked(MainThread)
    /\ UNCHANGED <<v3vars, mlvars, cvvars, smvars>>

\* read_chunk returns, in the main loop or in a session thread
MlStore(t) ==
    /\ ReadChunkStore(t)
    /\ UNCHANGED <<v3vars, mlvars, cvvars, smvars>>

\* run: the chunk goes to the detector unless a session is in progress; on a
\* wake word (spoken) on_wake_word_detected sets is_processing and
\* current_session, starts the recording and the session thread
MlDetect ==
    /\ rc_pc[MainThread] = "got"
    /\ ChunkTaken(MainThread)
    /\ \E spoken \in {FALSE} \cup (IF ml_wakes > 0 THEN {TRUE} ELSE {}) :
         /\ ml_wakes' = (IF spoken THEN ml_wakes - 1 ELSE ml_wakes)
         /\ IF spoken /\ SessionMayStart(is_processing)
            THEN /\ is_processing' = TRUE
                 /\ ml_threads' = Append(ml_threads,
                        MlThread(Len(ml_threads) + 1, get_current_timestamp))
                 /\ start_recording
            ELSE UNCHANGED <<is_processing, ml_threads, is_recording, continuous_buffer>>
    /\ UNCHANGED <<v3vars, cvvars, smvars, ml_events, current_position, pre_buffer,
                   rec_chunks, rec_delivered, rc_base>>

\* process_multilevel: log_json("session_start", ...)
MlSessionStart(k) ==
    /\ MlAt(k, "start")
    /\ MlGoto(k, "loop")
    /\ ml_events' = Append(ml_events, MlEvent("session_start", ml_threads[k].session_id))
    /\ UNCHANGED <<v3vars, cvvars, smvars, recvars, is_processing, ml_wakes>>

\* process_multilevel, once current_timestamp > wake_word_end +
\* INITIAL_SILENCE_IGNORE: audio_chunk = self.audio_recorder.read_chunk()
MlSessionRead(k) ==
    /\ MlAt(k, "loop")
    /\ get_current_timestamp > ml_threads[k].wake_word_end + FInt(INITIAL_SILENCE_IGNORE)
    /\ ReadChunkLocked(k)
    /\ UNCHANGED <<v3vars, mlvars, cvvars, smvars>>

\* ... and detect_silence on the chunk: `break` when it answers True
MlSilence(k) ==
    /\ MlAt(k, "loop")
    /\ rc_pc[k] = "got"
    /\ ChunkTaken(k)
    /\ \E silent \in BOOLEAN : MlGoto(k, IF silent THEN "stopping" ELSE "loop")
    /\ UNCHANGED <<v3vars, cvvars, smvars, is_processing, ml_events, ml_wakes,
                   current_position, is_recording, continuous_buffer, pre_buffer,
                   rec_chunks, rec_delivered, rc_base>>

\* `if self.audio_recorder.get_recording_duration() > 30: break`; the wall
\* clock of this program is not modelled, the test may succeed on any pass
MlMaxDuration(k) ==
    /\ MlAt(k, "loop")
    /\ rc_pc[k] = "idle"
    /\ is_recording
    /\ MlGoto(k, "stopping")
    /\ UNCHANGED <<v3vars, cvvars, smvars, recvars, is_processing, ml_events, ml_wakes>>

\* after the loop: stop_recording, get_ultra_chunk (which clears the
\* continuous buffer), the ultra transcription, log_json("session_end", ...)
MlFinish(k) ==
    /\ MlAt(k, "stopping")
    /\ MlGoto(k, "ended")
    /\ is_recording' = FALSE
    /\ continuous_buffer' = << >>
    /\ ml_events' = Append(ml_events, MlEvent("session_end", ml_threads[k].session_id))
    /\ UNCHANGED <<v3vars, cvvars, smvars, is_processing, ml_wakes, current_position,
                   pre_buffer, rec_chunks, rec_delivered, rc_pc, rc_base>>

\* self.is_processing = False, the last statement of process_multilevel
MlRelease(k) ==
    /\ MlAt(k, "ended")
    /\ MlGoto(k, "done")
    /\ is_processing' = FALSE
    /\ UNCHANGED <<v3vars, cvvars, smvars, recvars, ml_events, ml_wakes>>

MultiLevelConstructed ==
    /\ is_processing = FALSE
    /\ ml_threads = << >>
    /\ ml_events = << >>

(***************************************************************************)
(* continuous_main.py: ContinuousVoiceAssistant.  The detector is fed all  *)
(* the time; a wake word spoken during a session starts a second session   *)
(* thread over the same recorder.                                          *)
(***************************************************************************)
\* a process_session thread: its session, the stream position of its wake
\* word, and, as observations, the samples delivered when the wake word was
\* detected and when the session left its loop, and the ultra chunk it got
CvThread(session_id, wake_word_end, heard_from) ==
    [session_id |-> session_id, pc |-> "start", wake_word_end |-> wake_word_end,
     heard_from |-> heard_from, heard_to |-> heard_from, ultra |-> NoChunk]
CvAt(k, pc) == k <= Len(cv_threads) /\ cv_threads[k].pc = pc
CvGoto(k, pc) == cv_threads' = [cv_threads EXCEPT ![k].pc = pc]
\* ... leaving the `while self.is_running:` loop
CvLeave(k) ==
    cv_threads' = [cv_threads EXCEPT ![k].pc = "ending", ![k].heard_to = rec_delivered]

\* run: audio_chunk = self.audio_recorder.read_chunk()
CvMainRead ==
    /\ ReadChunkLocked(MainThread)
    /\ UNCHANGED <<v3vars, mlvars, cvvars, smvars>>

\* read_chunk returns, in the main loop or in a session thread
CvStore(t) ==
    /\ ReadChunkStore(t)
    /\ UNCHANGED <<v3vars, mlvars, cvvars, smvars>>

\* run feeds every chunk to the detector; on a wake word (spoken)
\* on_wake_word_detected, under session_lock: with a current session a new
\* session thread is started beside it, without one the new session becomes
\* the current one and the recording is started
CvDetect ==
    /\ rc_pc[MainThread] = "got"
    /\ ChunkTaken(MainThread)
    /\ \E spoken \in {FALSE} \cup (IF cv_wakes > 0 THEN {TRUE} ELSE {}) :
         /\ cv_wakes' = (IF spoken THEN cv_wakes - 1 ELSE cv_wakes)
         /\ IF spoken
            THEN /\ cv_threads' = Append(cv_threads,
                        CvThread(Len(cv_threads) + 1, get_current_timestamp,
                                 rec_delivered))
                 /\ IF cv_current_session # NoSession
                    THEN UNCHANGED <<cv_current_session, is_recording,
                                     continuous_buffer>>
                    ELSE /\ cv_current_session' = Len(cv_threads) + 1
                         /\ start_recording
            ELSE UNCHANGED <<cv_threads, cv_current_session, is_recording,
                             continuous_buffer>>
    /\ UNCHANGED <<v3vars, mlvars, smvars, current_position, pre_buffer, rec_chunks,
                   rec_delivered, rc_base>>

\* process_session: log_json("session_start", ...)
CvSessionStart(k) ==
    /\ CvAt(k, "start")
    /\ CvGoto(k, "loop")
    /\ UNCHANGED <<v3vars, mlvars, smvars, recvars, cv_current_session, cv_wakes>>

\* process_session, once current_timestamp > wake_word_end +
\* INITIAL_SILENCE_IGNORE: audio_chunk = self.audio_recorder.read_chunk()
CvSessionRead(k) ==
    /\ CvAt(k, "loop")
    /\ get_current_timestamp > cv_threads[k].wake_word_end + FInt(INITIAL_SILENCE_IGNORE)
    /\ ReadChunkLocked(k)
    /\ UNCHANGED <<v3vars, mlvars, cvvars, smvars>>

\* ... and detect_silence on the chunk: `break` when it answers True
CvSilence(k) ==
    /\ CvAt(k, "loop")
    /\ rc_pc[k] = "got"
    /\ ChunkTaken(k)
    /\ \E silent \in BOOLEAN : IF silent THEN CvLeave(k) ELSE UNCHANGED cv_threads
    /\ UNCHANGED <<v3vars, mlvars, smvars, cv_current_session, cv_wakes,
                   current_position, is_recording, continuous_buffer, pre_buffer,
                   rec_chunks, rec_delivered, rc_base>>

\* `if current_time - start_time > 30: break`; the wall clock of this program
\* is not modelled, the test may succeed on any pass
CvTimeout(k) ==
    /\ CvAt(k, "loop")
    /\ rc_pc[k] = "idle"
    /\ CvLeave(k)
    /\ UNCHANGED <<v3vars, mlvars, smvars, recvars, cv_current_session, cv_wakes>>

\* after the loop, under session_lock: the session that is the current one
\* clears current_session and stops the recording
CvEnd(k) ==
    /\ CvAt(k, "ending")
    /\ CvGoto(k, "ultra")
    /\ IF cv_current_session = cv_threads[k].session_id
       THEN /\ cv_current_session' = NoSession
            /\ is_recording' = FALSE
       ELSE UNCHANGED <<cv_current_session, is_recording>>
    /\ UNCHANGED <<v3vars, mlvars, smvars, cv_wakes, current_position,
                   continuous_buffer, pre_buffer, rec_chunks, rec_delivered, rc_pc,
                   rc_base>>

\* ultra_chunk = self.audio_recorder.get_ultra_chunk(), which clears the
\* continuous buffer; then the final transcription and session_end
CvUltra(k) ==
    /\ CvAt(k, "ultra")
    /\ cv_threads' = [cv_threads EXCEPT ![k].pc = "done",
                                        ![k].ultra = UltraChunk(continuous_buffer)]
    /\ continuous_buffer' = << >>
    /\ UNCHANGED <<v3vars, mlvars, smvars, cv_current_session, cv_wakes,
                   current_position, is_recording, pre_buffer, rec_chunks,
                   rec_delivered, rc_pc, rc_base>>

ContinuousConstructed ==
    /\ cv_current_session = NoSession
    /\ cv_threads = << >>

(***************************************************************************)
(* smart_continuous_main.py: SmartContinuousVoiceAssistant.  The main loop *)
(* appends an event per wake word; the processor thread, started by        *)
(* initialize, takes the oldest unprocessed event at each pass.  The audio *)
(* and the scans inside process_single_command are left out.               *)
(***************************************************************************)
\* the dict on_wake_word_detected records, named by its place in the run
WakeWordRecord(serial) == [serial |-> serial, processed |-> FALSE]
SmEvent(kind, serial) == [kind |-> kind, serial |-> serial]

\* unprocessed = [e for e in self.wake_word_events if not e['processed']]
Unprocessed(events) == SelectSeq(events, LAMBDA e : ~e.processed)
\* event['processed'] = True, on the dict wherever it is still held
MarkProcessed(events, serial) ==
    [i \in 1..Len(events) |->
        IF events[i].serial = serial THEN [events[i] EXCEPT !.processed = TRUE]
        ELSE events[i]]

\* run: self.is_running = True, after initialize has started the processor
SmRun ==
    /\ ~sm_is_running
    /\ sm_is_running' = TRUE
    /\ UNCHANGED <<v3vars, recvars, mlvars, cvvars, wake_word_events, sm_pc, sm_seen,
                   sm_event, sm_events, sm_wakes, sm_detected>>

\* run, a pass of the main loop in which the detector reports a wake word:
\* on_wake_word_detected appends the event to the deque(maxlen=...)
SmDetect ==
    /\ sm_is_running
    /\ sm_wakes > 0
    /\ sm_wakes' = sm_wakes - 1
    /\ sm_detected' = sm_detected + 1
    /\ wake_word_events' =
           KeepLast(Append(wake_word_events, WakeWordRecord(sm_detected + 1)),
                    WAKE_EVENTS_MAXLEN)
    /\ UNCHANGED <<v3vars, recvars, mlvars, cvvars, sm_is_running, sm_pc, sm_seen,
                   sm_event, sm_events>>

\* process_wake_words: `while self.is_running:` and the start of the
\* iteration over self.wake_word_events
SmLoopCheck ==
    /\ sm_pc = "check"
    /\ IF sm_is_running
       THEN sm_pc' = "scan" /\ sm_seen' = sm_detected
       ELSE sm_pc' = "exited" /\ UNCHANGED sm_seen
    /\ UNCHANGED <<v3vars, recvars, mlvars, cvvars, wake_word_events, sm_is_running,
                   sm_event, sm_events, sm_wakes, sm_detected>>

\* the end of the iteration: RuntimeError (deque mutated during iteration),
\* which nothing catches, when an event was appended meanwhile; otherwise the
\* oldest unprocessed event is taken once a second has passed since its
\* detection (ripe)
SmScanDone ==
    /\ sm_pc = "scan"
    /\ IF sm_detected # sm_seen
       THEN sm_pc' = "dead" /\ UNCHANGED sm_event
       ELSE IF Unprocessed(wake_word_events) = << >>
            THEN sm_pc' = "check" /\ UNCHANGED sm_event
            ELSE \E ripe \in BOOLEAN :
                   IF ripe
                   THEN /\ sm_pc' = "process"
                        /\ sm_event' = Head(Unprocessed(wake_word_events)).serial
                   ELSE sm_pc' = "check" /\ UNCHANGED sm_event
    /\ UNCHANGED <<v3vars, recvars, mlvars, cvvars, wake_word_events, sm_is_running,
                   sm_seen, sm_events, sm_wakes, sm_detected>>

\* self.process_single_command(event), which writes session_start and, on
\* either path, session_end; then event['processed'] = True
SmProcess ==
    /\ sm_pc = "process"
    /\ sm_pc' = "check"
    /\ sm_events' = sm_events \o << SmEvent("session_start", sm_event),
                                    SmEvent("session_end", sm_event) >>
    /\ wake_word_events' = MarkProcessed(wake_word_events, sm_event)
    /\ UNCHANGED <<v3vars, recvars, mlvars, cvvars, sm_is_running, sm_seen, sm_event,
                   sm_wakes, sm_detected>>

SmartConstructed ==
    /\ wake_word_events = << >>
    /\ sm_is_running = FALSE
    /\ sm_pc = "check"
    /\ sm_seen = 0
    /\ sm_event = 0
    /\ sm_events = << >>
    /\ sm_detected = 0

(***************************************************************************)
(* The pipeline                                                            *)
(***************************************************************************)
\* the object after __init__
Constructed ==
    /\ total_samples = 0
    /\ audio_buffer = << >>
    /\ buffer_lock = "free"
    /\ ab_pc = "read"
    /\ ab_chunk = << >>
    /\ chunks_processed = 0
    /\ enqueued = 0
    /\ clock = StartClock
    /\ event_queue = << >>
    /\ transcribe_queue = << >>
    /\ active_sessions = << >>
    /\ transcription_results = EmptyDict
    /\ transcription_history = EmptyDict
    /\ lm_wakeup = StartClock
    /\ tw_pc = "idle"
    /\ tw_req = NoRequest
    /\ emitted = EmptyDict
    /\ session_log = {}
    /\ ep_last = NoOp
    /\ stop_pc = "running"
    /\ log_pending = [thread \in LogThreads |-> NoEntry]
    /\ log_stream = << >>
    /\ log_calls = 0
    /\ ab_rms_low = TRUE
    /\ database = << >>
    /\ out_of_window = {}
    /\ result_run = EmptyDict
    /\ tw_last = NoWorkerStep
    /\ ex_last = NoExtract
    /\ ex_first = NoExtract
    /\ RecorderConstructed
    /\ MultiLevelConstructed
    /\ ContinuousConstructed
    /\ SmartConstructed

\* the other assistants are not run
ProgramsOff ==
    /\ rec_chunks = 0
    /\ ml_wakes = 0
    /\ cv_wakes = 0
    /\ sm_wakes = 0

\* ... and after initialize() has returned True
InitCommon ==
    /\ Constructed
    /\ detector_ok = TRUE
    /\ init_pc = "ready"
    /\ status_log = << "initializing", "ready" >>

Init ==
    /\ ProgramsOff
    /\ InitCommon
    /\ buffer_duration = BUFFER_SECONDS
    /\ mic_chunks = MaxChunks
    /\ wake_budget = MaxWakes
    /\ asr_texts = Texts
    /\ asr_slow = FALSE
    /\ silences = BOOLEAN
    /\ wake_until = Anytime
    /\ ex_range = NoRange

Next ==
    \/ AbExtend
    \/ \E silent \in silences : AbCount(silent)
    \/ OnWakeWordDetected
    \/ EpWakeWord
    \/ EpSilence
    \/ LmScan
    \/ TwTake
    \/ TwFinish
    \/ Tick

Spec == Init /\ [][Next]_vars

(***************************************************************************)
(* One session over a long stretch of audio the recogniser makes nothing of *)
(***************************************************************************)
InitLong ==
    /\ ProgramsOff
    /\ InitCommon
    /\ buffer_duration = BUFFER_SECONDS
    /\ mic_chunks = LongMaxChunks
    /\ wake_budget = 1
    /\ asr_texts = {}
    /\ asr_slow = FALSE
    /\ silences = BOOLEAN
    /\ wake_until = FirstSecond
    /\ ex_range = NoRange

SpecLong == InitLong /\ [][Next]_vars

(***************************************************************************)
(* One session to its end events, and the shutdown at any moment           *)
(***************************************************************************)
InitEnd ==
    /\ ProgramsOff
    /\ InitCommon
    /\ buffer_duration = BUFFER_SECONDS
    /\ mic_chunks = EndMaxChunks
    /\ wake_budget = 1
    /\ asr_texts = Texts
    /\ asr_slow = FALSE
    /\ silences = BOOLEAN
    /\ wake_until = FirstSecond
    /\ ex_range = NoRange

NextEnd ==
    \/ Next
    \/ Stop
    \/ StopStep

SpecEnd == InitEnd /\ [][NextEnd]_vars

(***************************************************************************)
(* The life of the process: start-up, one session, shutdown at any moment  *)
(***************************************************************************)
InitLife ==
    /\ ProgramsOff
    /\ Constructed
    /\ detector_ok \in BOOLEAN
    /\ init_pc = "constructed"
    /\ status_log = << >>
    /\ buffer_duration = BUFFER_SECONDS
    /\ mic_chunks = LifeMaxChunks
    /\ wake_budget = 1
    /\ asr_texts = Texts
    /\ asr_slow = FALSE
    /\ silences = {FALSE}
    /\ wake_until = FirstSecond
    /\ ex_range = NoRange

NextLife ==
    \/ InitializeBegin
    \/ InitializeDetector
    \/ InitializeStep
    \/ NextEnd

SpecLife == InitLife /\ [][NextLife]_vars

(***************************************************************************)
(* The event stream: three threads inside log_json at the same time        *)
(***************************************************************************)
InitLog ==
    /\ ProgramsOff
    /\ InitCommon
    /\ buffer_duration = BUFFER_SECONDS
    /\ mic_chunks = 0
    /\ wake_budget = 0
    /\ asr_texts = {}
    /\ asr_slow = FALSE
    /\ silences = {FALSE}
    /\ wake_until = Anytime
    /\ ex_range = NoRange

NextLog ==
    \/ \E thread \in LogThreads : LogStamp(thread)
    \/ \E thread \in LogThreads : LogWrite(thread)
    \/ LogTick

SpecLog == InitLog /\ [][NextLog]_vars

(***************************************************************************)
(* One session whose results alternate between a text and a longer one     *)
(***************************************************************************)
InitText ==
    /\ ProgramsOff
    /\ InitCommon
    /\ buffer_duration = BUFFER_SECONDS
    /\ mic_chunks = TextMaxChunks
    /\ wake_budget = 1
    /\ asr_texts = GrowingTexts
    /\ asr_slow = FALSE
    /\ silences = {FALSE}
    /\ wake_until = FirstSecond
    /\ ex_range = NoRange

SpecText == InitText /\ [][Next]_vars

(***************************************************************************)
(* One session in a room that is silent from the wake word on              *)
(***************************************************************************)
InitQuiet ==
    /\ ProgramsOff
    /\ InitCommon
    /\ buffer_duration = BUFFER_SECONDS
    /\ mic_chunks = QuietMaxChunks
    /\ wake_budget = 1
    /\ asr_texts = Texts
    /\ asr_slow = FALSE
    /\ silences = {TRUE}
    /\ wake_until = FirstSecond
    /\ ex_range = NoRange

SpecQuiet == InitQuiet /\ [][Next]_vars

(***************************************************************************)
(* One session that outlives the capacity of the ring buffer               *)
(***************************************************************************)
InitEvict ==
    /\ ProgramsOff
    /\ InitCommon
    /\ buffer_duration = EvictBufSeconds
    /\ mic_chunks = EvictMaxChunks
    /\ wake_budget = 1
    /\ asr_texts = Texts
    /\ asr_slow = FALSE
    /\ silences = {FALSE}
    /\ wake_until = FirstSecond
    /\ ex_range = NoRange

SpecEvict == InitEvict /\ [][Next]_vars

(***************************************************************************)
(* Overload: wake words in quick succession and a recogniser slower than   *)
(* the level manager, so that requests pile up behind the single worker    *)
(***************************************************************************)
InitSlow ==
    /\ ProgramsOff
    /\ InitCommon
    /\ buffer_duration = BUFFER_SECONDS
    /\ mic_chunks = SlowMaxChunks
    /\ wake_budget = MaxWakes
    /\ asr_texts = {}
    /\ asr_slow = TRUE
    /\ silences = BOOLEAN
    /\ wake_until = FirstSecond
    /\ ex_range = NoRange

SpecSlow == InitSlow /\ [][Next]_vars

(***************************************************************************)
(* The ring buffer alone: the audio worker and a reader, for every small   *)
(* capacity and every range between chunk boundaries                       *)
(***************************************************************************)
BufTimes ==
    {StreamPosition(k * CHUNK_SIZE) : k \in 0..BufMaxChunks}
        \cup {StreamPosition(k * CHUNK_SIZE) + FInt(1) : k \in 0..BufMaxChunks}

InitBuf ==
    /\ ProgramsOff
    /\ InitCommon
    /\ buffer_duration \in 1..BufMaxSeconds
    /\ mic_chunks = BufMaxChunks
    /\ wake_budget = 0
    /\ asr_texts = {}
    /\ asr_slow = FALSE
    /\ silences = BOOLEAN
    /\ wake_until = Anytime
    /\ ex_range \in [start : BufTimes, end : BufTimes]

NextBuf ==
    \/ AbExtend
    \/ \E silent \in silences : AbCount(silent)
    \/ LmScan
    \/ Tick
    \/ ExtractCall

SpecBuf == InitBuf /\ [][NextBuf]_vars

(***************************************************************************)
(* multilevel_main.py alone: the main loop, the detector and the session   *)
(* threads over the recorder                                               *)
(***************************************************************************)
\* event_driven_v3.py is not run
AssistantV3Off ==
    /\ InitCommon
    /\ buffer_duration = BUFFER_SECONDS
    /\ mic_chunks = 0
    /\ wake_budget = 0
    /\ asr_texts = {}
    /\ asr_slow = FALSE
    /\ silences = {FALSE}
    /\ wake_until = Anytime
    /\ ex_range = NoRange

InitMulti ==
    /\ AssistantV3Off
    /\ rec_chunks = MlMaxChunks
    /\ ml_wakes = RecMaxWakes
    /\ cv_wakes = 0
    /\ sm_wakes = 0

NextMulti ==
    \/ MlMainRead
    \/ \E t \in RecThreads : MlStore(t)
    \/ MlDetect
    \/ \E k \in SessionThreads : MlSessionStart(k)
    \/ \E k \in SessionThreads : MlSessionRead(k)
    \/ \E k \in SessionThreads : MlSilence(k)
    \/ \E k \in SessionThreads : MlMaxDuration(k)
    \/ \E k \in SessionThreads : MlFinish(k)
    \/ \E k \in SessionThreads : MlRelease(k)

SpecMulti == InitMulti /\ [][NextMulti]_vars

(***************************************************************************)
(* continuous_main.py alone                                                *)
(***************************************************************************)
InitCont ==
    /\ AssistantV3Off
    /\ rec_chunks = CvMaxChunks
    /\ cv_wakes = CvMaxWakes
    /\ ml_wakes = 0
    /\ sm_wakes = 0

NextCont ==
    \/ CvMainRead
    \/ \E t \in RecThreads : CvStore(t)
    \/ CvDetect
    \/ \E k \in SessionThreads : CvSessionStart(k)
    \/ \E k \in SessionThreads : CvSessionRead(k)
    \/ \E k \in SessionThreads : CvSilence(k)
    \/ \E k \in SessionThreads : CvTimeout(k)
    \/ \E k \in SessionThreads : CvEnd(k)
    \/ \E k \in SessionThreads : CvUltra(k)

SpecCont == InitCont /\ [][NextCont]_vars

(***************************************************************************)
(* smart_continuous_main.py alone                                          *)
(***************************************************************************)
InitSmart ==
    /\ AssistantV3Off
    /\ rec_chunks = 0
    /\ ml_wakes = 0
    /\ cv_wakes = 0
    /\ sm_wakes = SmMaxWakes

NextSmart ==
    \/ SmRun
    \/ SmDetect
    \/ SmLoopCheck
    \/ SmScanDone
    \/ SmProcess

SpecSmart == InitSmart /\ [][NextSmart]_vars

(***************************************************************************)
(* Properties of the ring buffer                                           *)
(***************************************************************************)
\* the samples a buffer holds after `total` samples were appended: the last
\* min(total, capacity) stream samples, oldest first
LastSamples(total) ==
    LET n == Min(total, Maxlen)
    IN  [i \in 1..n |-> total - n + i - 1]

\* the stream sample a time names: the nearest index to t * SAMPLE_RATE
SampleAt(t) == (2 * t * SAMPLE_RATE + ONE) \div (2 * ONE)

\* the stream samples with absolute index in [from, to), absent when empty
StreamSamples(from, to) ==
    IF from >= to THEN NoSegment
    ELSE Segment([i \in 1..(to - from) |-> from + i - 1])

\* C7: total_samples never decreases, an append of n samples adds exactly n
\* to it, and once the append is complete it equals the number of samples
\* ever enqueued, the evicted ones included.
C7_TotalSamplesCountsStream ==
    [][ /\ total_samples' >= total_samples
        /\ (ab_pc = "count" /\ ab_pc' = "read")
               => total_samples' = total_samples + Len(ab_chunk)
        /\ LockFree' => total_samples' = enqueued' ]_vars

\* C7 witness: the counter is past the capacity, so evicted samples are counted
C7_Witness ==
    /\ LockFree
    /\ total_samples > Maxlen
    /\ Len(audio_buffer) = Maxlen

\* C8: the pair (total_samples, buffer) an extract reads is never torn: it is
\* the state after a whole number of appends, the buffer holding exactly the
\* last min(total_samples, capacity) samples of the stream.
C8_SnapshotNotTorn ==
    ex_last.valid =>
        /\ ex_last.snap.total % CHUNK_SIZE = 0
        /\ ex_last.snap.buffer = LastSamples(ex_last.snap.total)

\* C8 witness: an extract ran between appends after the buffer had wrapped
C8_Witness ==
    /\ ex_last.valid
    /\ ex_last.snap.total > Maxlen
    /\ total_samples > ex_last.snap.total

\* C9: extract returns absent when start >= end or when the range lies
\* entirely outside the retained window (entirely evicted or entirely in the
\* future); when the range only partially precedes the window, it returns the
\* samples from the oldest retained sample up to end.
C9_ExtractClipsToWindow ==
    ex_last.valid =>
        LET start == ex_range.start
            end == ex_range.end
            snap == ex_last.snap
            window_start == snap.position - FDiv(Len(snap.buffer), SAMPLE_RATE)
            oldest == snap.total - Len(snap.buffer)
        IN  /\ start >= end => ex_last.result = NoSegment
            /\ (end <= window_start \/ start >= snap.position)
                   => ex_last.result = NoSegment
            /\ (start < window_start /\ window_start < end /\ end <= snap.position)
                   => ex_last.result = StreamSamples(oldest, SampleAt(end))

\* C10: for a range [a, b) inside the retained window, two extracts separated
\* by appends return the same samples, the stream samples with absolute index
\* in [a * rate, b * rate).
C10_ExtractStable ==
    (ex_first.valid /\ ex_last.valid /\ ex_last.retained) =>
        /\ ex_last.result = ex_first.result
        /\ ex_last.result = StreamSamples(SampleAt(ex_range.start), SampleAt(ex_range.end))

(***************************************************************************)
(* Properties of the sessions                                              *)
(***************************************************************************)
\* the event processor takes a wake-word event off the queue in this step
WakeWordStep ==
    /\ event_queue # << >>
    /\ Head(event_queue).event_type = "wake_word"
    /\ event_queue' = Tail(event_queue)

\* the event processor has just handled an end event of an active session
EndHandled == ep_last.op = "silence" /\ ep_last.outcome # "ignored"

\* C1: a session emits exactly one level=final result and exactly one
\* session_end, also when a silence and a repetition end event are both
\* queued for it; an end event of a finalized session has no effect.
C1_ExactlyOneFinalAndEnd ==
    /\ \A sid \in DOMAIN emitted :
          emitted[sid].final_result <= 1 /\ emitted[sid].session_end <= 1
    /\ EndHandled =>
          /\ Records(ep_last.session_id).final_result = 1
          /\ Records(ep_last.session_id).session_end = 1

C3_SessionEndsWithinTimeout ==
    \A i \in 1..Len(active_sessions) :
        get_stream_position - active_sessions[i].wake_word.end
            <= FInt(SESSION_TIMEOUT + 1)

\* C4: every wake-word event the event processor consumes adds one active
\* session, under an id no active session has, also when two events are
\* stamped in the same millisecond.
C4_WakeWordAddsDistinctSession ==
    [][ WakeWordStep =>
          /\ SessionId(Head(event_queue).timestamp) \notin SessionIds
          /\ Len(active_sessions') = Len(active_sessions) + 1 ]_vars

\* C5: handling a wake-word event leaves every existing session unchanged:
\* its entry, its results and its history.
C5_WakeWordLeavesSessionsUnchanged ==
    [][ WakeWordStep =>
          /\ \A i \in 1..Len(active_sessions) :
                /\ i <= Len(active_sessions')
                /\ active_sessions'[i] = active_sessions[i]
          /\ \A sid \in DOMAIN transcription_results :
                /\ sid \in DOMAIN transcription_results'
                /\ transcription_results'[sid] = transcription_results[sid]
          /\ \A sid \in DOMAIN transcription_history :
                /\ sid \in DOMAIN transcription_history'
                /\ transcription_history'[sid] = transcription_history[sid] ]_vars

ResultEmitted == tw_last.op = "finish" /\ tw_last.outcome = "stored"

\* C11: for every emitted transcription_result, the requested range lay
\* entirely inside the retained window of the ring buffer when the request was
\* created: start not older than the oldest retained sample, end not beyond
\* the stream position.
C11_ResultRangeWasRetained ==
    ResultEmitted => tw_last.request \notin out_of_window

\* the event processor takes an end event of an active session off the queue
EndEventStep ==
    /\ Running
    /\ event_queue # << >>
    /\ Head(event_queue).event_type = "silence"
    /\ Head(event_queue).session_id \in SessionIds
    /\ event_queue' = Tail(event_queue)

\* C12: every silence event that finalizes a session, the end event posted on
\* repetition included, has start >= the session's wake_word.end +
\* INITIAL_SILENCE_IGNORE.
C12_EndEventAfterInitialSilence ==
    [][ EndEventStep =>
          Head(event_queue).start >=
              SessionOf(Head(event_queue).session_id).wake_word.end
                  + FInt(INITIAL_SILENCE_IGNORE) ]_vars

\* C12 witness: an end event posted by detect_silence is about to be handled
\* for a session that an end event posted on repetition was handled for
C12_Witness ==
    /\ EndHandled
    /\ Records(ep_last.session_id).session_end_by_repetition > 0
    /\ event_queue # << >>
    /\ Head(event_queue).event_type = "silence"
    /\ Head(event_queue).reason = "silence"
    /\ Head(event_queue).session_id = ep_last.session_id
    /\ ep_last.session_id \in SessionIds

\* C13: when three consecutive transcription results of a session carry the
\* same text, a session_end_by_repetition record has been emitted for the
\* session (the final result and session_end that should follow it are the
\* subject of C1).
C13_ThreeIdenticalResultsEndSession ==
    \A sid \in DOMAIN result_run :
        result_run[sid].run >= REPETITION_LIMIT =>
            Records(sid).session_end_by_repetition >= 1

\* C16: the final transcription of a silence-finalized session covers exactly
\* [wake_word.end, silence.start], silence.start being the start carried by
\* the silence event that triggered the finalization.
C16_FinalCoversUpToSilenceStart ==
    [][ EndEventStep =>
          /\ ep_last'.start = SessionOf(Head(event_queue).session_id).wake_word.end
          /\ ep_last'.end = Head(event_queue).start ]_vars

\* C18: an ASR failure on a request is reported as an error event; the owning
\* session stays active.
C18_AsrFailureReported ==
    (tw_last.op = "finish" /\ tw_last.outcome = "failed") =>
        /\ tw_last.error_event
        /\ tw_last.request.session_id \in SessionIds

\* C19: when the range of a request can no longer be extracted from the ring
\* buffer, the request is dropped and an error event is emitted.
C19_ExtractionMissReported ==
    (tw_last.op = "take" /\ tw_last.outcome = "miss" /\ ~RangeRetained(tw_last.request)) =>
        tw_last.error_event

\* how far stop() has got
StreamsClosed == stop_pc # "running" /\ StopIndex(stop_pc) >= StopIndex("streams_closed")
DetectorReleased == stop_pc # "running" /\ StopIndex(stop_pc) >= StopIndex("detector_released")
StorageReleased == stop_pc # "running" /\ StopIndex(stop_pc) >= StopIndex("storage_released")

\* a request of level "final" for the session is pending or being transcribed
FinalRequested(session_id) ==
    \/ \E i \in 1..Len(transcribe_queue) :
           /\ transcribe_queue[i].session_id = session_id
           /\ transcribe_queue[i].level = "final"
    \/ tw_req.session_id = session_id /\ tw_req.level = "final"

\* C20: on shutdown every session still active gets one final request before
\* the workers exit, and the microphone streams are closed only after the
\* detector and the storage are released.
C20_ShutdownDrainsThenClosesStreams ==
    /\ StreamsClosed => DetectorReleased /\ StorageReleased
    /\ stop_pc = "stopped" =>
           \A sid \in SessionIds :
               FinalRequested(sid) \/ Records(sid).final_result >= 1

\* the capacity the specification gives as an example for the request queue;
\* self.transcribe_queue = queue.Queue() has none
QueueCapacity == 8

\* C14: the transcription request queue is bounded: its length never exceeds
\* its capacity (a request submitted to a full queue displaces the pending
\* request of lowest priority).
C14_RequestQueueBounded == Len(transcribe_queue) <= QueueCapacity

\* several sessions are open and requests wait behind the single worker
Overloaded == Len(active_sessions) >= 2 /\ transcribe_queue # << >>

\* C15: under overload, a session whose audio is still inside the retained
\* window of the buffer has a final transcription result once its end event
\* has been handled.
C15_OverloadedSessionGetsFinal ==
    (EndHandled /\ Overloaded /\ RangeRetained([start |-> ep_last.start, end |-> ep_last.end])) =>
        Records(ep_last.session_id).final_result >= 1

\* both microphone streams have been opened by initialize()
StreamsOpened == init_pc \in {"streams_open", "threads_started", "ready"}
StatusOrder == << "initializing", "ready", "shutting_down", "stopped" >>

\* C21: the system status records are written in the order initializing,
\* ready, shutting_down, stopped; when the wake-word detector fails to
\* initialize, ready is never written and no stream is opened, no worker
\* thread started and no audio read.
C21_StatusOrderAndFatalInit ==
    /\ Len(status_log) <= Len(StatusOrder)
    /\ status_log = SubSeq(StatusOrder, 1, Len(status_log))
    /\ ~detector_ok =>
           /\ \A i \in 1..Len(status_log) : status_log[i] # "ready"
           /\ ~StreamsOpened /\ ~ThreadsStarted
           /\ enqueued = 0 /\ stop_pc = "running"
C21_Witness == ~detector_ok /\ init_pc = "failed" /\ status_log = << "initializing" >>

\* C22: the records appear in the event stream in the order in which they
\* were submitted, and of two records of the same session the one written
\* later does not carry the smaller wall time, whichever threads wrote them.
C22_StreamInSubmissionOrder ==
    \A i, j \in 1..Len(log_stream) :
        i < j =>
            /\ log_stream[i].serial < log_stream[j].serial
            /\ (log_stream[i].session_id = log_stream[j].session_id
                /\ log_stream[i].session_id # NoSession)
                   => log_stream[i].timestamp <= log_stream[j].timestamp

\* a step of the event processor (the session driver): it alone takes events
\* off the event queue
EventProcessorStep == event_queue # << >> /\ event_queue' = Tail(event_queue)

\* C23: the state of the sessions (the session records with their silence
\* counters and last_level_check, the result tables, the histories) is
\* written by the session-driver thread only.
C23_OnlyDriverWritesSessions ==
    [][ sessvars' # sessvars => EventProcessorStep ]_vars

\* how many rows insert_request has stored for the session
Inserted(session_id) ==
    Cardinality({i \in 1..Len(database) : database[i] = session_id})

\* C24: the persistence sink's insert is called exactly once for each
\* finalized session, a session whose end event has been handled, and never
\* for a session that has not been finalized.
C24_InsertOncePerFinalizedSession ==
    /\ EndHandled => Inserted(ep_last.session_id) = 1
    /\ \A i \in 1..Len(database) : Records(database[i]).session_end >= 1

\* the requests the level manager puts on the queue in a step
Issued ==
    {transcribe_queue'[k] : k \in (Len(transcribe_queue) + 1)..Len(transcribe_queue')}

\* C25: the scheduler issues a request for level L of a session only when
\* stream_position - wake_word.end >= D_L, and only for the levels short,
\* medium and long, never for the final level.
C25_RequestOnlyWhenElapsed ==
    [][ \A req \in Issued :
          /\ req.level \in LevelSet
          /\ req.session_id \in SessionIds
          /\ get_stream_position - SessionOf(req.session_id).wake_word.end
                 >= FInt(LevelDuration(req.level)) ]_vars
C25_Witness ==
    /\ \E i \in 1..Len(transcribe_queue) : transcribe_queue[i].level = "long"
    /\ \E i \in 1..Len(active_sessions) :
           get_stream_position - active_sessions[i].wake_word.end
               >= FInt(LevelDuration("long"))

\* C26: two successive requests the scheduler issues for the same session and
\* level L are at least D_L - O_L apart on the scheduler's clock, and
\* last_level_check[L] of a session is set, to the time of the request,
\* exactly when a request for L is issued.
C26_RequestsSpacedByInterval ==
    /\ [](\A i, j \in 1..Len(transcribe_queue) :
            (/\ i < j
             /\ transcribe_queue[i].session_id = transcribe_queue[j].session_id
             /\ transcribe_queue[i].level = transcribe_queue[j].level)
                => transcribe_queue[j].timestamp - transcribe_queue[i].timestamp
                       >= MinInterval(transcribe_queue[i].level))
    /\ [][ /\ \A req \in Issued :
                 /\ req.timestamp - SessionOf(req.session_id).last_level_check[req.level]
                        >= MinInterval(req.level)
                 /\ SessionOf(req.session_id)'.last_level_check[req.level] = req.timestamp
           /\ \A sid \in SessionIds \cap SessionIds', level \in LevelSet :
                 SessionOf(sid)'.last_level_check[level]
                         # SessionOf(sid).last_level_check[level]
                     => \E req \in Issued : req.session_id = sid /\ req.level = level
         ]_vars
C26_Witness ==
    \E i, j \in 1..Len(transcribe_queue) :
        /\ i < j
        /\ transcribe_queue[i].session_id = transcribe_queue[j].session_id
        /\ transcribe_queue[i].level = transcribe_queue[j].level
        /\ transcribe_queue[j].timestamp - transcribe_queue[i].timestamp
               = MinInterval(transcribe_queue[i].level)

\* C27: every request the scheduler issues for level L of a session covers
\* [wake_word.end, min(wake_word.end + D_L, stream_position)], the stream
\* position being that of the pass that issues it; the end of a pending
\* request never lies beyond the current stream position.
C27_RequestCoversLevelRange ==
    /\ [](\A i \in 1..Len(transcribe_queue) :
            transcribe_queue[i].end <= get_stream_position)
    /\ [][ \A req \in Issued :
             LET wake_end == SessionOf(req.session_id).wake_word.end
             IN  /\ req.start = wake_end
                 /\ req.end = Min(wake_end + FInt(LevelDuration(req.level)),
                                  get_stream_position) ]_vars
C27_Witness ==
    \E i \in 1..Len(transcribe_queue) :
        /\ transcribe_queue[i].level = "short"
        /\ transcribe_queue[i].session_id \in SessionIds
        /\ transcribe_queue[i].end =
               SessionOf(transcribe_queue[i].session_id).wake_word.end
                   + FInt(LevelDuration("short"))
        /\ transcribe_queue[i].end < get_stream_position

\* the audio worker has just stored a chunk
ChunkStep == chunks_processed' = chunks_processed + 1

\* C28: the silence monitor examines every chunk: a chunk with RMS >=
\* SILENCE_THRESHOLD resets the silence counters of all sessions to zero, so
\* that a silence event is only emitted after uninterrupted low energy.
C28_LoudChunkResetsCounters ==
    [][ (ChunkStep /\ ~ab_rms_low') =>
           \A i \in 1..Len(active_sessions') : active_sessions'[i].silence_count = 0 ]_vars

\* the audio worker has just run detect_silence on a chunk of low energy
SilentCheckStep ==
    /\ ChunkStep
    /\ chunks_processed' % SILENCE_CHECK_CHUNKS = 0
    /\ ab_rms_low'
    /\ Len(active_sessions) > 0

\* C29: silence is tracked per session: on a silent check every active
\* session past INITIAL_SILENCE_IGNORE has its own counter incremented, also
\* when another session reaches or has passed the threshold.
C29_EverySessionCounts ==
    [][ SilentCheckStep =>
          \A i \in 1..Len(active_sessions) :
              SilenceEligible(active_sessions[i], StreamPosition(total_samples'))
                  => active_sessions'[i].silence_count
                         = active_sessions[i].silence_count + 1 ]_vars

\* the worker has just stored a result of a session that had one before
LaterResultStep ==
    /\ tw_pc = "asr" /\ tw_pc' = "idle"
    /\ tw_last'.outcome = "stored"
    /\ tw_req.session_id \in DOMAIN result_run
    /\ tw_req.session_id \in DOMAIN transcription_history

\* the claim's notion of an unchanged result
SameOrContains(previous, text) ==
    Normalize(text) = Normalize(previous) \/ Contains(Normalize(previous), Normalize(text))

\* C30: a result counts as unchanged only if its normalized text equals or
\* contains the normalized text of the result immediately before it in the
\* same session; a changed result resets no_change_count to 0.
C30_UnchangedMeansLikePrevious ==
    [][ LaterResultStep =>
          LET sid == tw_req.session_id
              previous == result_run[sid].text
              text == result_run'[sid].text
              old == transcription_history[sid].no_change_count
              new == transcription_history'[sid].no_change_count
          IN  /\ new > old => SameOrContains(previous, text)
              /\ ~SameOrContains(previous, text) => new = 0 ]_vars

\* C31: a session whose silence begins less than 8 s after wake_word.end
\* (here: right at the wake word, every chunk being silent) is finalized
\* before the medium or long level is due: no medium or long request is
\* issued for it.
C31_QuietSessionStaysShort ==
    /\ \A i \in 1..Len(transcribe_queue) : transcribe_queue[i].level = "short"
    /\ tw_req.level \notin {"medium", "long"}


\* a wake-word event has just been put on the event queue
WakeWordPosted ==
    /\ Len(event_queue') = Len(event_queue) + 1
    /\ event_queue'[Len(event_queue')].event_type = "wake_word"

\* C32: every wake-word event posted on a detection has end equal to the
\* stream position read at detection and start = end - 1.5 (the detector
\* supplies no bounds); when the event processor consumes it,
\* start <= end <= the stream position at that time.
C32_WakeEventBounds ==
    [][ /\ WakeWordPosted =>
            LET e == event_queue'[Len(event_queue')]
            IN  e.end = get_stream_position /\ e.start = e.end - Halves(3)
        /\ WakeWordStep =>
            LET e == Head(event_queue)
            IN  e.start <= e.end /\ e.end <= get_stream_position ]_vars

\* a wake word posted earlier is about to be consumed after the stream moved on
C32_Witness ==
    /\ event_queue # << >>
    /\ Head(event_queue).event_type = "wake_word"
    /\ Head(event_queue).end > 0
    /\ Head(event_queue).end < get_stream_position
    /\ active_sessions # << >>


\* C33: whenever the event processor dequeues a silence event whose session is
\* active, finalize_session runs to completion: the session is removed from
\* active_sessions, transcription_results and transcription_history and one
\* session_end is emitted, whatever the final extraction and the recogniser
\* returned.
C33_FinalizeRunsToCompletion ==
    [][ EndEventStep =>
          LET sid == Head(event_queue).session_id
          IN  /\ sid \notin SessionIds'
              /\ sid \notin DOMAIN transcription_results'
              /\ sid \notin DOMAIN transcription_history'
              /\ sid \in DOMAIN emitted'
              /\ emitted'[sid].session_end = Records(sid).session_end + 1 ]_vars


\* the requests waiting in the queue or in the worker's hands
Pending ==
    {transcribe_queue[k] : k \in 1..Len(transcribe_queue)}
        \cup (IF tw_pc = "asr" THEN {tw_req} ELSE {})

\* C34: all requests the level manager issues for one session at one level
\* carry the same range [wake_word.end, wake_word.end + D_L]: a request
\* issued now has the range of every request of the same session and level
\* issued before it, so re-issuing a level never moves its window.
C34_SameRangePerSessionAndLevel ==
    [][ \A r \in Issued :
          /\ r.end = r.start + FInt(LevelDuration(r.level))
          /\ \A q \in Pending :
                (q.session_id = r.session_id /\ q.level = r.level) =>
                    (q.start = r.start /\ q.end = r.end) ]_vars


\* C34 witness: a level of a session has been issued again while its earlier
\* request is still pending
C34_Witness ==
    \E q \in Pending, r \in Pending :
        /\ q.session_id = r.session_id
        /\ q.level = r.level
        /\ q.timestamp < r.timestamp
        /\ q.start = r.start
        /\ q.end = r.end
        /\ r.end > r.start


\* C35: for each session, session_end_by_repetition is emitted at most once
\* and at most one repetition-triggered end event is on the event queue,
\* however many further unchanged results arrive.
C35_RepetitionEndsOnce ==
    /\ \A sid \in DOMAIN emitted : emitted[sid].session_end_by_repetition <= 1
    /\ \A i, j \in 1..Len(event_queue) :
          (/\ event_queue[i].event_type = "silence"
           /\ event_queue[j].event_type = "silence"
           /\ event_queue[i].reason = "repetition"
           /\ event_queue[j].reason = "repetition"
           /\ event_queue[i].session_id = event_queue[j].session_id) => i = j


\* finalize_session calls whisper_processor.transcribe in this step
FinalTranscribeStep == EndEventStep /\ ep_last'.outcome = "transcribe"

C40_PositionCountsReturnedSamples ==
    (\A t \in RecThreads : rc_pc[t] # "add") => current_position = SamplesReturned

\* the process_multilevel threads that have not run to their end
MlLive == {k \in 1..Len(ml_threads) : ml_threads[k].pc # "done"}
\* the sessions started and not ended, by the records written
MlOpen ==
    {e.session_id : e \in {ml_events[i] : i \in 1..Len(ml_events)}}
        \ {ml_events[i].session_id : i \in {j \in 1..Len(ml_events) :
                                                 ml_events[j].kind = "session_end"}}
\* a wake word is spoken in this step
MlWakeStep == ml_wakes' < ml_wakes

\* C37: in MultiLevelVoiceAssistant at most one session is in progress: a
\* wake word spoken while is_processing is true starts no session and no
\* second process_multilevel thread; once a session thread has run to its
\* end is_processing is false again, and the next wake word starts a session.
C37_OneSessionAtATime ==
    /\ [](/\ Cardinality(MlLive) <= 1
          /\ Cardinality(MlOpen) <= 1
          /\ MlLive # {} => is_processing
          /\ MlLive = {} => ~is_processing)
    /\ [][ MlWakeStep =>
            IF is_processing
            THEN UNCHANGED <<ml_threads, ml_events, is_processing>>
            ELSE /\ Len(ml_threads') = Len(ml_threads) + 1
                 /\ is_processing' ]_vars

\* C37 witness: three wake words were spoken, one of them during the first
\* session; the second session was started after the first had ended
C37_Witness ==
    /\ ml_wakes = 0
    /\ Len(ml_threads) = 2
    /\ ml_threads[1].pc = "done"
    /\ ml_threads[2].pc = "loop"
    /\ Len(ml_events) = 3


\* the samples an array holds
Samples(audio) == {audio[i] : i \in 1..Len(audio)}
\* the audio of a session: the samples delivered from its wake word to the
\* moment it left its loop
CvOwnAudio(thread) == (thread.heard_from + 1)..thread.heard_to

\* C38: in ContinuousVoiceAssistant, also when a second session is started
\* while one is active, each session obtains a final (ultra) chunk covering
\* its own audio: the other session's end neither clears nor stops it.
C38_EachSessionGetsItsUltraChunk ==
    \A k \in 1..Len(cv_threads) :
        cv_threads[k].pc = "done" =>
            /\ cv_threads[k].ultra.present
            /\ CvOwnAudio(cv_threads[k]) \subseteq Samples(cv_threads[k].ultra.audio)


\* how many records of a kind the stream holds for an event
SmCount(kind, serial) ==
    Cardinality({i \in 1..Len(sm_events) :
                    sm_events[i].kind = kind /\ sm_events[i].serial = serial})
\* the events the deque still holds
SmHeld == {wake_word_events[i].serial : i \in 1..Len(wake_word_events)}

\* C39: in SmartContinuousVoiceAssistant every detected wake-word event is
\* processed exactly once and in detection order: it gets at most one
\* session_start and one session_end, sessions start in the order of
\* detection, and no unprocessed event is lost: an event without
\* session_end is still in the deque, with a processor thread alive to take it.
C39_EveryEventProcessedOnce ==
    /\ \A serial \in 1..sm_detected :
          /\ SmCount("session_start", serial) <= 1
          /\ SmCount("session_end", serial) <= 1
          /\ SmCount("session_end", serial) = 0 =>
                 /\ serial \in SmHeld
                 /\ sm_pc \notin {"exited", "dead"}
    /\ \A i, j \in 1..Len(sm_events) :
          (i < j /\ sm_events[i].kind = "session_start"
                 /\ sm_events[j].kind = "session_start") =>
              sm_events[i].serial < sm_events[j].serial

====
